---------------------------- MODULE Spec2Model ----------------------------
(***************************************************************************)
(* A model of the scoreboard's runtime state engine                        *)
(* (src-tauri/src/state.rs), the schema it is derived from                 *)
(* (src-tauri/src/config.rs), the clock that drives its timers, and the    *)
(* threads of the application shell (src-tauri/src/lib.rs) that share it.  *)
(*                                                                         *)
(* Conventions.                                                            *)
(*   Option<T>        a sequence of length 0 (None) or 1 (Some(x))         *)
(*   HashMap<String,T> a function whose domain is the set of keys          *)
(*   String (text)    a sequence of one-character strings, so that         *)
(*                    contains() and the formatters work on characters     *)
(*   Instant          an integer count of clock units, InstantPerMs of     *)
(*                    them to a millisecond (Instant is finer than a       *)
(*                    millisecond; Duration::as_millis truncates)          *)
(***************************************************************************)
EXTENDS Integers, Sequences, FiniteSets, TLC

VARIABLES
    runtime,    \* AppState.runtime: the RuntimeState behind the mutex
    now,        \* the monotonic clock read by Instant::now()
    steps,      \* how many times the clock has advanced (bounds the run)
    last,       \* the operation that produced this state, with its result
    anchor,     \* per timer id: where an action last anchored it (history)
    action_by_shortcut,  \* AppState.action_by_shortcut: shortcut -> Action
    action_by_gamepad,   \* AppState.action_by_gamepad: button -> Action
    hotkeys_paused,      \* AppState.hotkeys_paused
    active_config_path,  \* AppState.active_config_path
    config_watcher,      \* AppState.config_watcher: the path being watched
    owner,      \* per mutex of AppState: the thread holding it, or Free
    pc,         \* per thread: where it is in the handler it is running
    frame,      \* per thread: the locals of the handler it is running
    in_flight_limit, \* how many threads may be inside a handler at once
    emitted     \* the payload of the last state-updated event the renderer got

\* What the application shell adds to the engine
appvars ==
    <<action_by_shortcut, action_by_gamepad, hotkeys_paused, active_config_path,
      config_watcher, owner, pc, frame, in_flight_limit, emitted>>

vars == <<runtime, now, steps, last, anchor, appvars>>

----------------------------------------------------------------------------
(* Bounds of the model *)

InstantPerMs == 2

MaxSteps == 2

MaxNumber == 2

MaxTimerSeconds == 2

(* Program constants *)

TIMER_STEP_MS == 1000

CANVAS_WIDTH == 640

CANVAS_HEIGHT == 480

----------------------------------------------------------------------------
(* Option and small helpers *)

None == <<>>

Some(x) == <<x>>

IsSome(o) == Len(o) = 1

Unwrap(o) == o[1]

Max(a, b) == IF a >= b THEN a ELSE b

EmptyMap == [k \in {} |-> 0]

Insert(m, k, v) == [x \in DOMAIN m \cup {k} |-> IF x = k THEN v ELSE m[x]]

\* str.contains(ch)
Contains(s, ch) == \E i \in 1..Len(s) : s[i] = ch

\* Duration::as_millis() of a difference of two Instants, as i64
as_millis(d) == d \div InstantPerMs

----------------------------------------------------------------------------
(* Schema types (config.rs) as state.rs uses them *)

Number(id, x, y, default) ==
    [id |-> id, position |-> [x |-> x, y |-> y], kind |-> "Number", default |-> default,
     keybind |-> None]

Timer(id, x, y, default_ms, rounding) ==
    [id |-> id, position |-> [x |-> x, y |-> y], kind |-> "Timer",
     default_ms |-> default_ms, rounding |-> rounding, keybind |-> None]

Label(id, x, y, default, edit) ==
    [id |-> id, position |-> [x |-> x, y |-> y], kind |-> "Label",
     default |-> default, edit |-> edit]

Image(id, x, y, source) ==
    [id |-> id, position |-> [x |-> x, y |-> y], kind |-> "Image", source |-> source]

ImageToggle(id, x, y, sources) ==
    [id |-> id, position |-> [x |-> x, y |-> y], kind |-> "ImageToggle", sources |-> sources,
     keybind |-> None]

\* str::trim, for texts whose only white space is the blank
RECURSIVE trim_start(_)
trim_start(s) == IF s # <<>> /\ s[1] = " " THEN trim_start(Tail(s)) ELSE s

RECURSIVE trim_end(_)
trim_end(s) == IF s # <<>> /\ s[Len(s)] = " " THEN trim_end(SubSeq(s, 1, Len(s) - 1)) ELSE s

trim(s) == trim_end(trim_start(s))

\* [&str]::join(sep)
RECURSIVE join(_, _)
join(parts, sep) ==
    IF parts = <<>> THEN <<>>
    ELSE IF Len(parts) = 1 THEN parts[1]
    ELSE parts[1] \o <<sep>> \o join(Tail(parts), sep)

\* A key-chord. Its key is a text in pieces: a letter, a digit, a blank, or
\* the prefix "Gamepad:" that lib.rs strips as a whole.
KeybindSpec(key, ctrl, alt, shift, win) ==
    [key |-> key, ctrl |-> ctrl, alt |-> alt, shift |-> shift, win |-> win]

\* KeybindSpec::to_shortcut
to_shortcut(k) ==
    LET parts == (IF k.ctrl THEN << <<"Ctrl">> >> ELSE <<>>)
                 \o (IF k.alt THEN << <<"Alt">> >> ELSE <<>>)
                 \o (IF k.shift THEN << <<"Shift">> >> ELSE <<>>)
                 \o (IF k.win THEN << <<"Super">> >> ELSE <<>>)
                 \o << trim(k.key) >>
    IN  join(parts, "+")

\* The keybind tables of the three kinds that have one; each chord is optional
NumberKeybind(increase, decrease, reset) ==
    [increase |-> increase, decrease |-> decrease, reset |-> reset]

TimerKeybind(start, stop, reset, increase, decrease) ==
    [start |-> start, stop |-> stop, reset |-> reset,
     increase |-> increase, decrease |-> decrease]

ImageToggleKeybind(forward, backward) == [forward |-> forward, backward |-> backward]

\* The component with `keybind: Some(keybind)`
Bound(c, keybind) == [c EXCEPT !.keybind = Some(keybind)]

ScoreboardConfig(background_color, components) ==
    [global |-> [background_color |-> background_color], components |-> components]

\* config.components.iter().find_map(|c| ... if c.id == id && kind matches)
FindComponent(config, id, kind) ==
    LET hits == {i \in 1..Len(config.components) :
                    /\ config.components[i].id = id
                    /\ config.components[i].kind = kind}
    IN  IF hits = {} THEN None
        ELSE Some(config.components[CHOOSE i \in hits : \A j \in hits : i <= j])

----------------------------------------------------------------------------
(* RuntimeState (state.rs) *)

I32_MAX == 2147483647

I32_MIN == -2147483647 - 1

\* i32 `+ 1` as the release build computes it (two's complement wrap)
wrapping_inc(v) == IF v = I32_MAX THEN I32_MIN ELSE v + 1

\* i32 `- 1` as the release build computes it
wrapping_dec(v) == IF v = I32_MIN THEN I32_MAX ELSE v - 1

TimerRuntime(remaining_ms, running, last_tick) ==
    [remaining_ms |-> remaining_ms, running |-> running, last_tick |-> last_tick]

\* RuntimeState::new
new ==
    [config |-> None,
     number_values |-> EmptyMap,
     timer_values |-> EmptyMap,
     label_values |-> EmptyMap,
     image_toggle_indices |-> EmptyMap]

\* One pass of replace_config's loop, from component i on
RECURSIVE replace_config_loop(_, _, _)
replace_config_loop(components, i, rt) ==
    IF i > Len(components) THEN rt
    ELSE LET c == components[i]
             next ==
                CASE c.kind = "Number" ->
                        [rt EXCEPT !.number_values = Insert(@, c.id, c.default)]
                  [] c.kind = "Timer" ->
                        [rt EXCEPT !.timer_values =
                            Insert(@, c.id, TimerRuntime(c.default_ms, FALSE, None))]
                  [] c.kind = "Label" ->
                        [rt EXCEPT !.label_values = Insert(@, c.id, c.default)]
                  [] c.kind = "Image" -> rt
                  [] c.kind = "ImageToggle" ->
                        [rt EXCEPT !.image_toggle_indices = Insert(@, c.id, 0)]
         IN  replace_config_loop(components, i + 1, next)

\* replace_config without the four clear() calls
replace_config_NoClear(rt, config) ==
    [replace_config_loop(config.components, 1, rt) EXCEPT !.config = Some(config)]

replace_config(rt, config) ==
    LET cleared == [rt EXCEPT !.number_values = EmptyMap,
                              !.timer_values = EmptyMap,
                              !.label_values = EmptyMap,
                              !.image_toggle_indices = EmptyMap]
        filled == replace_config_loop(config.components, 1, cleared)
    IN  [filled EXCEPT !.config = Some(config)]

Ok(v) == [tag |-> "Ok", value |-> v]

Err(e) == [tag |-> "Err", error |-> e]

\* The first component with this id, whatever its kind
FindById(config, id) ==
    LET hits == {i \in 1..Len(config.components) : config.components[i].id = id}
    IN  IF hits = {} THEN None
        ELSE Some(config.components[CHOOSE i \in hits : \A j \in hits : i <= j])

\* set_label_value testing the text for '\n' alone
set_label_value_LineFeedOnly(rt, id, value) ==
    IF Contains(value, "\n")
    THEN [rt |-> rt, result |-> Err("Label text must be a single-line string")]
    ELSE IF ~IsSome(rt.config)
    THEN [rt |-> rt, result |-> Err("No config loaded")]
    ELSE LET found == FindById(Unwrap(rt.config), id) IN
         IF ~IsSome(found)
         THEN [rt |-> rt, result |-> Err("Unknown component")]
         ELSE IF Unwrap(found).kind # "Label"
         THEN [rt |-> rt, result |-> Err("Component is not a label")]
         ELSE IF ~Unwrap(found).edit
         THEN [rt |-> rt, result |-> Err("Component is not editable")]
         ELSE LET current == IF id \in DOMAIN rt.label_values
                             THEN rt.label_values[id] ELSE <<>>
              IN  IF current = value
                  THEN [rt |-> rt, result |-> Ok(FALSE)]
                  ELSE [rt |-> [rt EXCEPT !.label_values = Insert(@, id, value)],
                        result |-> Ok(TRUE)]

\* set_label_value without the test of the label's edit flag
set_label_value_IgnoresEdit(rt, id, value) ==
    IF Contains(value, "\n") \/ Contains(value, "\r")
    THEN [rt |-> rt, result |-> Err("Label text must be a single-line string")]
    ELSE IF ~IsSome(rt.config)
    THEN [rt |-> rt, result |-> Err("No config loaded")]
    ELSE LET found == FindById(Unwrap(rt.config), id) IN
         IF ~IsSome(found)
         THEN [rt |-> rt, result |-> Err("Unknown component")]
         ELSE IF Unwrap(found).kind # "Label"
         THEN [rt |-> rt, result |-> Err("Component is not a label")]
         ELSE LET current == IF id \in DOMAIN rt.label_values
                             THEN rt.label_values[id] ELSE <<>>
              IN  IF current = value
                  THEN [rt |-> rt, result |-> Ok(FALSE)]
                  ELSE [rt |-> [rt EXCEPT !.label_values = Insert(@, id, value)],
                        result |-> Ok(TRUE)]

set_label_value(rt, id, value) ==
    IF Contains(value, "\n") \/ Contains(value, "\r")
    THEN [rt |-> rt, result |-> Err("Label text must be a single-line string")]
    ELSE IF ~IsSome(rt.config)
    THEN [rt |-> rt, result |-> Err("No config loaded")]
    ELSE LET found == FindById(Unwrap(rt.config), id) IN
         IF ~IsSome(found)
         THEN [rt |-> rt, result |-> Err("Unknown component")]
         ELSE IF Unwrap(found).kind # "Label"
         THEN [rt |-> rt, result |-> Err("Component is not a label")]
         ELSE IF ~Unwrap(found).edit
         THEN [rt |-> rt, result |-> Err("Component is not editable")]
         ELSE LET current == IF id \in DOMAIN rt.label_values
                             THEN rt.label_values[id] ELSE <<>>
              IN  IF current = value
                  THEN [rt |-> rt, result |-> Ok(FALSE)]
                  ELSE [rt |-> [rt EXCEPT !.label_values = Insert(@, id, value)],
                        result |-> Ok(TRUE)]

HotkeyBinding(shortcut, tag, id) ==
    [shortcut |-> shortcut, action |-> [tag |-> tag, id |-> id]]

\* `if let Some(chord) = &keybind.field { bindings.push(...) }`
push_if_some(chord, tag, id) ==
    IF IsSome(chord) THEN <<HotkeyBinding(to_shortcut(Unwrap(chord)), tag, id)>> ELSE <<>>

\* The match arm for a timer that never pushes its reset chord
component_hotkeys_NoTimerReset(c) ==
    IF c.kind \in {"Number", "Timer", "ImageToggle"} /\ IsSome(c.keybind)
    THEN LET keybind == Unwrap(c.keybind) IN
         CASE c.kind = "Number" ->
                push_if_some(keybind.increase, "NumberIncrease", c.id)
                \o push_if_some(keybind.decrease, "NumberDecrease", c.id)
                \o push_if_some(keybind.reset, "NumberReset", c.id)
           [] c.kind = "Timer" ->
                push_if_some(keybind.start, "TimerStart", c.id)
                \o push_if_some(keybind.stop, "TimerStop", c.id)
                \o push_if_some(keybind.increase, "TimerIncrease", c.id)
                \o push_if_some(keybind.decrease, "TimerDecrease", c.id)
           [] c.kind = "ImageToggle" ->
                push_if_some(keybind.forward, "ImageToggleForward", c.id)
                \o push_if_some(keybind.backward, "ImageToggleBackward", c.id)
    ELSE <<>>

\* collect_hotkeys' match on one component
component_hotkeys(c) ==
    IF c.kind \in {"Number", "Timer", "ImageToggle"} /\ IsSome(c.keybind)
    THEN LET keybind == Unwrap(c.keybind) IN
         CASE c.kind = "Number" ->
                push_if_some(keybind.increase, "NumberIncrease", c.id)
                \o push_if_some(keybind.decrease, "NumberDecrease", c.id)
                \o push_if_some(keybind.reset, "NumberReset", c.id)
           [] c.kind = "Timer" ->
                push_if_some(keybind.start, "TimerStart", c.id)
                \o push_if_some(keybind.stop, "TimerStop", c.id)
                \o push_if_some(keybind.reset, "TimerReset", c.id)
                \o push_if_some(keybind.increase, "TimerIncrease", c.id)
                \o push_if_some(keybind.decrease, "TimerDecrease", c.id)
           [] c.kind = "ImageToggle" ->
                push_if_some(keybind.forward, "ImageToggleForward", c.id)
                \o push_if_some(keybind.backward, "ImageToggleBackward", c.id)
    ELSE <<>>

\* collect_hotkeys' loop, from component i on
RECURSIVE collect_hotkeys_loop(_, _)
collect_hotkeys_loop(components, i) ==
    IF i > Len(components) THEN <<>>
    ELSE component_hotkeys(components[i]) \o collect_hotkeys_loop(components, i + 1)

collect_hotkeys(rt) ==
    IF ~IsSome(rt.config) THEN <<>>
    ELSE collect_hotkeys_loop(Unwrap(rt.config).components, 1)

sync_timer(timer, t) ==
    IF ~timer.running THEN timer
    ELSE LET lt == IF IsSome(timer.last_tick) THEN Unwrap(timer.last_tick) ELSE t
             elapsed_ms == as_millis(t - lt)
             rem == IF elapsed_ms > 0
                    THEN Max(timer.remaining_ms - elapsed_ms, 0)
                    ELSE timer.remaining_ms
         IN  IF rem > 0
             THEN TimerRuntime(rem, timer.running, Some(t))
             ELSE TimerRuntime(rem, FALSE, None)

Unchanged(rt) == [rt |-> rt, changed |-> FALSE]

Changed(rt) == [rt |-> rt, changed |-> TRUE]

SetTimer(rt, id, timer) == [rt EXCEPT !.timer_values[id] = timer]

----------------------------------------------------------------------------
(* apply_action, one operator per arm of its match *)

NumberIncrease(rt, id) ==
    IF id \in DOMAIN rt.number_values
    THEN Changed([rt EXCEPT !.number_values[id] = wrapping_inc(@)])
    ELSE Unchanged(rt)

NumberDecrease(rt, id) ==
    IF id \in DOMAIN rt.number_values
    THEN Changed([rt EXCEPT !.number_values[id] = Max(wrapping_dec(@), 0)])
    ELSE Unchanged(rt)

\* NumberReset putting every counter back to the default of the one named
NumberReset_All(rt, id) ==
    IF ~IsSome(rt.config) THEN Unchanged(rt)
    ELSE LET found == FindComponent(Unwrap(rt.config), id, "Number") IN
         IF IsSome(found) /\ id \in DOMAIN rt.number_values
         THEN Changed([rt EXCEPT !.number_values =
                          [other \in DOMAIN rt.number_values |-> Unwrap(found).default]])
         ELSE Unchanged(rt)

NumberReset(rt, id) ==
    IF ~IsSome(rt.config) THEN Unchanged(rt)
    ELSE LET found == FindComponent(Unwrap(rt.config), id, "Number") IN
         IF IsSome(found) /\ id \in DOMAIN rt.number_values
         THEN Changed([rt EXCEPT !.number_values[id] = Unwrap(found).default])
         ELSE Unchanged(rt)

\* TimerStart without the `!timer.running` test: a Running timer is anchored anew
TimerStart_Reanchors(rt, id, t) ==
    IF id \in DOMAIN rt.timer_values
    THEN LET timer == rt.timer_values[id] IN
         IF timer.remaining_ms > 0
         THEN Changed(SetTimer(rt, id, TimerRuntime(timer.remaining_ms, TRUE, Some(t))))
         ELSE Unchanged(rt)
    ELSE Unchanged(rt)

TimerStart(rt, id, t) ==
    IF id \in DOMAIN rt.timer_values
    THEN LET timer == rt.timer_values[id] IN
         IF timer.remaining_ms > 0 /\ ~timer.running
         THEN Changed(SetTimer(rt, id, TimerRuntime(timer.remaining_ms, TRUE, Some(t))))
         ELSE Unchanged(rt)
    ELSE Unchanged(rt)

\* TimerStop without the sync_timer call: the time since the last tick is dropped
TimerStop_NoSync(rt, id, t) ==
    IF id \in DOMAIN rt.timer_values
    THEN LET timer == rt.timer_values[id] IN
         IF timer.running
         THEN Changed(SetTimer(rt, id, TimerRuntime(timer.remaining_ms, FALSE, None)))
         ELSE Unchanged(rt)
    ELSE Unchanged(rt)

TimerStop(rt, id, t) ==
    IF id \in DOMAIN rt.timer_values
    THEN LET timer == rt.timer_values[id] IN
         IF timer.running
         THEN LET synced == sync_timer(timer, t)
              IN  Changed(SetTimer(rt, id, TimerRuntime(synced.remaining_ms, FALSE, None)))
         ELSE Unchanged(rt)
    ELSE Unchanged(rt)

\* The tail shared by TimerReset and TimerDecrease: `if timer.running { ... }`
\* after remaining_ms was assigned
Reanchor(timer, t) ==
    IF timer.running
    THEN IF timer.remaining_ms > 0
         THEN TimerRuntime(timer.remaining_ms, timer.running, Some(t))
         ELSE TimerRuntime(timer.remaining_ms, FALSE, None)
    ELSE timer

TimerReset(rt, id, t) ==
    IF ~IsSome(rt.config) THEN Unchanged(rt)
    ELSE LET found == FindComponent(Unwrap(rt.config), id, "Timer") IN
         IF IsSome(found) /\ id \in DOMAIN rt.timer_values
         THEN LET timer == rt.timer_values[id]
                  synced == IF timer.running THEN sync_timer(timer, t) ELSE timer
                  assigned == [synced EXCEPT !.remaining_ms = Unwrap(found).default_ms]
              IN  Changed(SetTimer(rt, id, Reanchor(assigned, t)))
         ELSE Unchanged(rt)

TimerIncrease(rt, id, t) ==
    IF id \in DOMAIN rt.timer_values
    THEN LET timer == rt.timer_values[id]
             synced == IF timer.running THEN sync_timer(timer, t) ELSE timer
             added == [synced EXCEPT !.remaining_ms = @ + TIMER_STEP_MS]
         IN  Changed(SetTimer(rt, id,
                IF added.running THEN [added EXCEPT !.last_tick = Some(t)] ELSE added))
    ELSE Unchanged(rt)

\* TimerDecrease without the floor at 0
TimerDecrease_NoFloor(rt, id, t) ==
    IF id \in DOMAIN rt.timer_values
    THEN LET timer == rt.timer_values[id]
             synced == IF timer.running THEN sync_timer(timer, t) ELSE timer
             cut == [synced EXCEPT !.remaining_ms = @ - TIMER_STEP_MS]
         IN  Changed(SetTimer(rt, id, Reanchor(cut, t)))
    ELSE Unchanged(rt)

TimerDecrease(rt, id, t) ==
    IF id \in DOMAIN rt.timer_values
    THEN LET timer == rt.timer_values[id]
             synced == IF timer.running THEN sync_timer(timer, t) ELSE timer
             cut == [synced EXCEPT !.remaining_ms = Max(@ - TIMER_STEP_MS, 0)]
         IN  Changed(SetTimer(rt, id, Reanchor(cut, t)))
    ELSE Unchanged(rt)

\* The two arms stopping at the last and the first source instead of wrapping
Rotate_Saturates(rt, id, forward) ==
    IF ~IsSome(rt.config) THEN Unchanged(rt)
    ELSE LET found == FindComponent(Unwrap(rt.config), id, "ImageToggle") IN
         IF IsSome(found) /\ Len(Unwrap(found).sources) > 0
         THEN LET source_count == Len(Unwrap(found).sources)
                  index == IF id \in DOMAIN rt.image_toggle_indices
                           THEN rt.image_toggle_indices[id] ELSE 0
                  rotated == IF forward
                             THEN (IF index + 1 < source_count THEN index + 1 ELSE index)
                             ELSE Max(index - 1, 0)
              IN  Changed([rt EXCEPT !.image_toggle_indices = Insert(@, id, rotated)])
         ELSE Unchanged(rt)

\* The two ImageToggle arms: entry(id).or_insert(0), then the rotated index
Rotate(rt, id, forward) ==
    IF ~IsSome(rt.config) THEN Unchanged(rt)
    ELSE LET found == FindComponent(Unwrap(rt.config), id, "ImageToggle") IN
         IF IsSome(found) /\ Len(Unwrap(found).sources) > 0
         THEN LET source_count == Len(Unwrap(found).sources)
                  index == IF id \in DOMAIN rt.image_toggle_indices
                           THEN rt.image_toggle_indices[id] ELSE 0
                  rotated == IF forward THEN (index + 1) % source_count
                             ELSE (index + source_count - 1) % source_count
              IN  Changed([rt EXCEPT !.image_toggle_indices = Insert(@, id, rotated)])
         ELSE Unchanged(rt)

ImageToggleForward(rt, id) == Rotate(rt, id, TRUE)

ImageToggleBackward(rt, id) == Rotate(rt, id, FALSE)

ActionTags ==
    {"NumberIncrease", "NumberDecrease", "NumberReset",
     "TimerStart", "TimerStop", "TimerReset", "TimerIncrease", "TimerDecrease",
     "ImageToggleForward", "ImageToggleBackward"}

apply_action(rt, action, t) ==
    CASE action.tag = "NumberIncrease" -> NumberIncrease(rt, action.id)
      [] action.tag = "NumberDecrease" -> NumberDecrease(rt, action.id)
      [] action.tag = "NumberReset" -> NumberReset(rt, action.id)
      [] action.tag = "TimerStart" -> TimerStart(rt, action.id, t)
      [] action.tag = "TimerStop" -> TimerStop(rt, action.id, t)
      [] action.tag = "TimerReset" -> TimerReset(rt, action.id, t)
      [] action.tag = "TimerIncrease" -> TimerIncrease(rt, action.id, t)
      [] action.tag = "TimerDecrease" -> TimerDecrease(rt, action.id, t)
      [] action.tag = "ImageToggleForward" -> ImageToggleForward(rt, action.id)
      [] action.tag = "ImageToggleBackward" -> ImageToggleBackward(rt, action.id)

\* Whether the i32 arithmetic of the action overflows: `*value += 1` at
\* i32::MAX and `*value - 1` at i32::MIN. A build with overflow checks panics
\* there (`attempt to add with overflow`); one without wraps.
apply_action_overflows(rt, action) ==
    /\ action.id \in DOMAIN rt.number_values
    /\ \/ action.tag = "NumberIncrease" /\ rt.number_values[action.id] = I32_MAX
       \/ action.tag = "NumberDecrease" /\ rt.number_values[action.id] = I32_MIN

----------------------------------------------------------------------------
(* tick_timers *)

\* tick_timers' loop body without the stop at zero
tick_one_NoStop(timer, t) ==
    IF ~timer.running THEN [timer |-> timer, changed |-> FALSE]
    ELSE LET lt == IF IsSome(timer.last_tick) THEN Unwrap(timer.last_tick) ELSE t
             elapsed_ms == as_millis(t - lt)
         IN  IF elapsed_ms <= 0 THEN [timer |-> timer, changed |-> FALSE]
             ELSE LET new_value == Max(timer.remaining_ms - elapsed_ms, 0)
                  IN  [timer |-> TimerRuntime(new_value, timer.running, Some(t)),
                       changed |-> new_value # timer.remaining_ms]

\* The body of tick_timers' loop for one timer
tick_one(timer, t) ==
    IF ~timer.running THEN [timer |-> timer, changed |-> FALSE]
    ELSE LET lt == IF IsSome(timer.last_tick) THEN Unwrap(timer.last_tick) ELSE t
             elapsed_ms == as_millis(t - lt)
         IN  IF elapsed_ms <= 0 THEN [timer |-> timer, changed |-> FALSE]
             ELSE LET new_value == Max(timer.remaining_ms - elapsed_ms, 0)
                      stop == new_value = 0 /\ timer.running
                  IN  [timer |-> TimerRuntime(new_value,
                                              IF stop THEN FALSE ELSE timer.running,
                                              IF stop THEN None ELSE Some(t)),
                       changed |-> new_value # timer.remaining_ms]

tick_timers(rt, t) ==
    [rt |-> [rt EXCEPT !.timer_values =
                [id \in DOMAIN rt.timer_values |-> tick_one(rt.timer_values[id], t).timer]],
     changed |-> \E id \in DOMAIN rt.timer_values : tick_one(rt.timer_values[id], t).changed]

----------------------------------------------------------------------------
(* i64 and i32 beyond the range of the checker's own integers: an i64 is    *)
(* four 16-bit limbs, least significant first, in two's complement.        *)

LIMB == 65536

\* Body applied to the value of v, with v evaluated once
With(v, Body(_)) == CHOOSE result \in { Body(x) : x \in {v} } : TRUE

\* The i64 of an integer the checker can hold
to_i64(n) ==
    LET sign == IF n >= 0 THEN 0 ELSE LIMB - 1
    IN  <<n % LIMB, (n \div LIMB) % LIMB, sign, sign>>

is_negative(x) == x[4] >= LIMB \div 2

\* Whether the i64 is one the checker can hold (it fits an i32)
fits_i32(x) ==
    \/ x[3] = 0 /\ x[4] = 0 /\ x[2] < LIMB \div 2
    \/ x[3] = LIMB - 1 /\ x[4] = LIMB - 1 /\ x[2] >= LIMB \div 2

\* `as i32`: the low 32 bits, in two's complement
as_i32(x) ==
    IF x[2] < LIMB \div 2 THEN x[2] * LIMB + x[1]
    ELSE (x[2] - LIMB) * LIMB + x[1]

\* x * k + c on the 64 bits, limb by limb from limb i with carry c; `carry`
\* is what left bit 64
RECURSIVE mul_add_from(_, _, _, _)
mul_add_from(x, k, c, i) ==
    IF i > 4 THEN [value |-> <<>>, carry |-> c]
    ELSE With(x[i] * k + c, LAMBDA t :
         With(mul_add_from(x, k, t \div LIMB, i + 1), LAMBDA rest :
              [value |-> <<t % LIMB>> \o rest.value, carry |-> rest.carry]))

\* x * k + c for a non-negative x and small k, c >= 0: the wrapped value the
\* release build computes, and whether the checked arithmetic of a build with
\* overflow checks (`attempt to multiply with overflow`) panics
wrapping_mul_add(x, k, c) ==
    With(mul_add_from(x, k, c, 1), LAMBDA r :
         [value |-> r.value, overflow |-> r.carry # 0 \/ is_negative(r.value)])

\* wrapping_neg
negate(x) ==
    With([i \in 1..4 |-> LIMB - 1 - x[i]], LAMBDA flipped :
         mul_add_from(flipped, 1, 1, 1).value)

IsDigit(ch) == ch \in {"0", "1", "2", "3", "4", "5", "6", "7", "8", "9"}

DigitValue(ch) ==
    CASE ch = "0" -> 0 [] ch = "1" -> 1 [] ch = "2" -> 2 [] ch = "3" -> 3 [] ch = "4" -> 4
      [] ch = "5" -> 5 [] ch = "6" -> 6 [] ch = "7" -> 7 [] ch = "8" -> 8 [] ch = "9" -> 9

\* The digits of from_str_radix, accumulated from digit i on as a magnitude;
\* carried once the magnitude has left the 64 bits
RECURSIVE accumulate(_, _, _, _)
accumulate(digits, i, acc, carried) ==
    IF i > Len(digits)
    THEN [value |-> acc, carried |-> carried, too_large |-> carried \/ is_negative(acc)]
    ELSE With(mul_add_from(acc, 10, DigitValue(digits[i]), 1), LAMBDA r :
              accumulate(digits, i + 1, r.value, carried \/ r.carry # 0))

\* str::parse::<i64>(): an optional sign, then one digit or more, and the
\* value within the i64
parse_i64(s) ==
    LET signed == s # <<>> /\ s[1] \in {"+", "-"}
        digits == IF signed THEN Tail(s) ELSE s
    IN  IF digits = <<>> \/ \E i \in 1..Len(digits) : ~IsDigit(digits[i])
        THEN Err("invalid digit")
        ELSE With(accumulate(digits, 1, to_i64(0), FALSE), LAMBDA r :
             LET minimum == ~r.too_large \/ (~r.carried /\ r.value = <<0, 0, 0, LIMB \div 2>>)
             IN  IF signed /\ s[1] = "-"
                 THEN IF ~minimum THEN Err("number too small")
                      ELSE Ok(negate(r.value))
                 ELSE IF r.too_large THEN Err("number too large")
                      ELSE Ok(r.value))

\* str::split(sep).collect()
RECURSIVE split(_, _)
split(s, sep) ==
    IF ~Contains(s, sep) THEN <<s>>
    ELSE With(CHOOSE i \in 1..Len(s) : s[i] = sep /\ \A j \in 1..(i - 1) : s[j] # sep,
              LAMBDA i :
              With(SubSeq(s, i + 1, Len(s)), LAMBDA rest :
                   <<SubSeq(s, 1, i - 1)>> \o split(rest, sep)))

\* (0..60).contains(&v)
in_0_60(v) == fits_i32(v) /\ as_i32(v) >= 0 /\ as_i32(v) < 60

Panic(message) == [tag |-> "Panic", message |-> message]

\* parse_timer_default accepting 60 for the minutes and the seconds
parse_timer_default_Through60(value, overflow_checks) ==
    With(split(value, ":"), LAMBDA parts :
    IF Len(parts) # 3 THEN Err("must be HH:MM:SS")
    ELSE With(<<parse_i64(parts[1]), parse_i64(parts[2]), parse_i64(parts[3])>>, LAMBDA hms :
         LET h == hms[1]
             m == hms[2]
             s == hms[3]
         IN  IF h.tag = "Err" THEN Err("has invalid hours")
             ELSE IF m.tag = "Err" THEN Err("has invalid minutes")
             ELSE IF s.tag = "Err" THEN Err("has invalid seconds")
             ELSE IF \/ ~(in_0_60(m.value) \/ m.value = to_i64(60))
                     \/ ~(in_0_60(s.value) \/ s.value = to_i64(60))
                     \/ is_negative(h.value)
                  THEN Err("must be HH:MM:SS")
             ELSE With(wrapping_mul_add(h.value, 3600, 0), LAMBDA hours :
                  With(wrapping_mul_add(hours.value, 1, as_i32(m.value) * 60), LAMBDA minutes :
                  With(wrapping_mul_add(minutes.value, 1, as_i32(s.value)), LAMBDA seconds :
                  With(wrapping_mul_add(seconds.value, 1000, 0), LAMBDA millis :
                      IF overflow_checks /\ hours.overflow
                      THEN Panic("attempt to multiply with overflow")
                      ELSE IF overflow_checks /\ (minutes.overflow \/ seconds.overflow)
                      THEN Panic("attempt to add with overflow")
                      ELSE IF overflow_checks /\ millis.overflow
                      THEN Panic("attempt to multiply with overflow")
                      ELSE Ok(millis.value)))))))

\* parse_timer_default, in a build with overflow checks (debug) or without
\* (release): the i64 arithmetic panics in the one and wraps in the other
parse_timer_default(value, overflow_checks) ==
    With(split(value, ":"), LAMBDA parts :
    IF Len(parts) # 3 THEN Err("must be HH:MM:SS")
    ELSE With(<<parse_i64(parts[1]), parse_i64(parts[2]), parse_i64(parts[3])>>, LAMBDA hms :
         LET h == hms[1]
             m == hms[2]
             s == hms[3]
         IN  IF h.tag = "Err" THEN Err("has invalid hours")
             ELSE IF m.tag = "Err" THEN Err("has invalid minutes")
             ELSE IF s.tag = "Err" THEN Err("has invalid seconds")
             ELSE IF ~in_0_60(m.value) \/ ~in_0_60(s.value) \/ is_negative(h.value)
                  THEN Err("must be HH:MM:SS")
             ELSE With(wrapping_mul_add(h.value, 3600, 0), LAMBDA hours :
                  With(wrapping_mul_add(hours.value, 1, as_i32(m.value) * 60), LAMBDA minutes :
                  With(wrapping_mul_add(minutes.value, 1, as_i32(s.value)), LAMBDA seconds :
                  With(wrapping_mul_add(seconds.value, 1000, 0), LAMBDA millis :
                      IF overflow_checks /\ hours.overflow
                      THEN Panic("attempt to multiply with overflow")
                      ELSE IF overflow_checks /\ (minutes.overflow \/ seconds.overflow)
                      THEN Panic("attempt to add with overflow")
                      ELSE IF overflow_checks /\ millis.overflow
                      THEN Panic("attempt to multiply with overflow")
                      ELSE Ok(millis.value)))))))

----------------------------------------------------------------------------

(* The configuration compiler (config.rs). A document is what toml::from_str *)
(* hands over: an optional [global] table and the component tables, keyed    *)
(* by id, in the order the table iterates them.                              *)

\* The characters of the ids and colours the documents use
Spellings ==
    { <<"clock", <<"c", "l", "o", "c", "k">> >>,
      <<"home", <<"h", "o", "m", "e">> >>,
      <<"logo", <<"l", "o", "g", "o">> >>,
      <<"note", <<"n", "o", "t", "e">> >>,
      <<"Zone", <<"Z", "o", "n", "e">> >>,
      <<"pic", <<"p", "i", "c">> >>,
      <<" ", <<" ">> >>,
      <<"#000000", <<"#", "0", "0", "0", "0", "0", "0">> >>,
      <<"#FFFFFF", <<"#", "F", "F", "F", "F", "F", "F">> >>,
      <<"#1020G0", <<"#", "1", "0", "2", "0", "G", "0">> >>,
      <<"red", <<"r", "e", "d">> >>,
      <<"Segoe UI", <<"S", "e", "g", "o", "e", " ", "U", "I">> >>,
      <<"", <<>> >> }

chars(s) == (CHOOSE p \in Spellings : p[1] = s)[2]

\* The characters in the order of their bytes
ASCII ==
    <<" ", "#", "0", "1", "2", "3", "4", "5", "6", "7", "8", "9",
      "A", "B", "C", "D", "E", "F", "G", "H", "I", "J", "K", "L", "M",
      "N", "O", "P", "Q", "R", "S", "T", "U", "V", "W", "X", "Y", "Z",
      "a", "b", "c", "d", "e", "f", "g", "h", "i", "j", "k", "l", "m",
      "n", "o", "p", "q", "r", "s", "t", "u", "v", "w", "x", "y", "z">>

byte(ch) == CHOOSE i \in 1..Len(ASCII) : ASCII[i] = ch

\* char::to_ascii_lowercase
to_ascii_lowercase(ch) ==
    IF byte(ch) >= byte("A") /\ byte(ch) <= byte("Z")
    THEN ASCII[byte(ch) + (byte("a") - byte("A"))]
    ELSE ch

\* str::cmp: Less
RECURSIVE text_less(_, _)
text_less(a, b) ==
    IF b = <<>> THEN FALSE
    ELSE IF a = <<>> THEN TRUE
    ELSE IF byte(a[1]) # byte(b[1]) THEN byte(a[1]) < byte(b[1])
    ELSE With(<<Tail(a), Tail(b)>>, LAMBDA rest : text_less(rest[1], rest[2]))

\* a.id.cmp(&b.id) == Less
id_less(a, b) == text_less(chars(a), chars(b))

\* One insertion of a stable sort by id
RECURSIVE insert_by_id(_, _)
insert_by_id(sorted, c) ==
    IF sorted = <<>> THEN <<c>>
    ELSE IF id_less(c.id, sorted[1].id) THEN <<c>> \o sorted
    ELSE With(Tail(sorted), LAMBDA rest : <<sorted[1]>> \o insert_by_id(rest, c))

\* components.sort_by(|a, b| a.id.cmp(&b.id))
RECURSIVE sort_by_id(_)
sort_by_id(components) ==
    IF components = <<>> THEN <<>>
    ELSE With(sort_by_id(SubSeq(components, 1, Len(components) - 1)), LAMBDA sorted :
              insert_by_id(sorted, components[Len(components)]))

Font(family, size, color) == [family |-> family, size |-> size, color |-> color]

FontOverride(family, size, color) == [family |-> family, size |-> size, color |-> color]

resolve_font(base, override_font) ==
    Font(IF IsSome(override_font) /\ IsSome(Unwrap(override_font).family)
         THEN Unwrap(Unwrap(override_font).family) ELSE base.family,
         IF IsSome(override_font) /\ IsSome(Unwrap(override_font).size)
         THEN Unwrap(Unwrap(override_font).size) ELSE base.size,
         IF IsSome(override_font) /\ IsSome(Unwrap(override_font).color)
         THEN Unwrap(Unwrap(override_font).color) ELSE base.color)

is_ascii_hexdigit(ch) ==
    \/ IsDigit(ch)
    \/ ch \in {"A", "B", "C", "D", "E", "F", "a", "b", "c", "d", "e", "f"}

validate_color(color) ==
    LET trimmed == trim(chars(color)) IN
    IF ~(Len(trimmed) = 7 /\ trimmed[1] = "#") THEN Err("must be #RRGGBB")
    ELSE IF \E i \in 2..Len(trimmed) : ~is_ascii_hexdigit(trimmed[i]) THEN Err("must be #RRGGBB")
    ELSE Ok(<<>>)

validate_font(font) ==
    IF trim(chars(font.family)) = <<>> THEN Err("font.family cannot be empty")
    ELSE IF font.size <= 0 THEN Err("font.size must be > 0")
    ELSE validate_color(font.color)

validate_id(id) ==
    IF trim(chars(id)) = <<>> THEN Err("Component id cannot be empty") ELSE Ok(<<>>)

\* validate_position letting the right and the bottom edge through
validate_position_EdgeIncluded(p) ==
    IF p.x < 0 \/ p.x > CANVAS_WIDTH \/ p.y < 0 \/ p.y > CANVAS_HEIGHT
    THEN Err("position is outside")
    ELSE Ok(<<>>)

validate_position(p) ==
    IF p.x < 0 \/ p.x >= CANVAS_WIDTH \/ p.y < 0 \/ p.y >= CANVAS_HEIGHT
    THEN Err("position is outside")
    ELSE Ok(<<>>)

\* parse_global_settings: the background colour and the font of [global],
\* each falling back to the built-in one
parse_global_settings(raw_global) ==
    LET fallback_font == Font("Segoe UI", 28, "#FFFFFF")
        font == resolve_font(fallback_font,
                             IF IsSome(raw_global) THEN Unwrap(raw_global).font ELSE None)
        background_color ==
            IF IsSome(raw_global) /\ IsSome(Unwrap(raw_global).background_color)
            THEN Unwrap(Unwrap(raw_global).background_color) ELSE "#000000"
    IN  IF validate_font(font).tag = "Err" THEN validate_font(font)
        ELSE IF validate_color(background_color).tag = "Err" THEN validate_color(background_color)
        ELSE Ok([background_color |-> background_color, font |-> font])

\* The `type` of a component: a string, or a table with `name` or `kind` and
\* an optional `rounding`
TypeName(name) == [form |-> "string", name |-> name]

TypeTable(name, kind, rounding) ==
    [form |-> "table", name |-> name, kind |-> kind, rounding |-> rounding]

parse_component_type(raw_type) ==
    IF raw_type.form = "string" THEN Ok([component_type |-> raw_type.name, rounding |-> None])
    ELSE IF raw_type.form # "table" THEN Err("type must be a string or table")
    ELSE IF IsSome(raw_type.name)
         THEN Ok([component_type |-> Unwrap(raw_type.name), rounding |-> raw_type.rounding])
    ELSE IF IsSome(raw_type.kind)
         THEN Ok([component_type |-> Unwrap(raw_type.kind), rounding |-> raw_type.rounding])
    ELSE Err("type table requires 'name' or 'kind' as a string")

\* type_rounding.or(component_rounding).unwrap_or("standard"), lower-cased
parse_timer_rounding(type_rounding, component_rounding) ==
    LET rounding == IF IsSome(type_rounding) THEN Unwrap(type_rounding)
                    ELSE IF IsSome(component_rounding) THEN Unwrap(component_rounding)
                    ELSE <<"s", "t", "a", "n", "d", "a", "r", "d">>
        lowered == [i \in 1..Len(rounding) |-> to_ascii_lowercase(rounding[i])]
    IN  IF lowered = <<"s", "t", "a", "n", "d", "a", "r", "d">> THEN Ok("Standard")
        ELSE IF lowered = <<"b", "a", "s", "k", "e", "t", "b", "a", "l", "l">> THEN Ok("Basketball")
        ELSE Err("unsupported timer rounding")

\* parse_keybind: binds is the keybind table, a function from names to chords
parse_keybind(binds, key) ==
    IF key \notin DOMAIN binds THEN Err("keybind is required")
    ELSE IF trim(binds[key].key) = <<>> THEN Err("keybind key cannot be empty")
    ELSE Ok(binds[key])

\* A path is the sequence of its segments, "/" first when it is absolute
resolve_image_source(base_dir, source) ==
    IF source # <<>> /\ source[1] = "/" THEN source ELSE base_dir \o source

\* toml::Value, for the two shapes a `default` is read as
TomlInteger(x) == [integer |-> x]

TomlString(s) == [str |-> s]

\* Option<&Value>::and_then(|v| v.as_integer())
as_integer(v) == IF IsSome(v) /\ "integer" \in DOMAIN Unwrap(v) THEN Some(Unwrap(v).integer) ELSE None

\* Option<&Value>::and_then(|v| v.as_str())
as_str(v) == IF IsSome(v) /\ "str" \in DOMAIN Unwrap(v) THEN Some(Unwrap(v).str) ELSE None

\* The table of one component as RawComponent deserializes it
RawComponent(component_type, default, position) ==
    [component_type |-> component_type, default |-> default, position |-> position,
     font |-> None, keybind |-> None, source |-> None, size |-> None,
     opacity |-> None, rounding |-> None, edit |-> None]

\* The first Err or Panic of a sequence of results, else the last result
RECURSIVE first_failure(_)
first_failure(results) ==
    IF Len(results) = 1 \/ results[1].tag # "Ok" THEN results[1]
    ELSE first_failure(Tail(results))

\* The `"number"` arm
compile_number(id, raw) ==
    IF IsSome(raw.edit) THEN Err("edit is only supported for label components")
    ELSE IF ~IsSome(as_integer(raw.default)) THEN Err("default must be an integer")
    ELSE IF ~IsSome(raw.keybind) THEN Err("number requires keybind section")
    ELSE LET binds == Unwrap(raw.keybind)
             increase == parse_keybind(binds, "increase")
             decrease == parse_keybind(binds, "decrease")
             reset == parse_keybind(binds, "reset")
         IN  IF first_failure(<<increase, decrease, reset>>).tag # "Ok"
             THEN first_failure(<<increase, decrease, reset>>)
             ELSE Ok(Bound(Number(id, raw.position.x, raw.position.y,
                                  as_i32(Unwrap(as_integer(raw.default)))),
                           NumberKeybind(Some(increase.value), Some(decrease.value),
                                         Some(reset.value))))

\* The default of a timer as the model's integers hold it: the schema keeps
\* an i64 that does not fit them as its limbs
held(x) == IF fits_i32(x) THEN as_i32(x) ELSE x

\* The `"timer"` arm
compile_timer(id, raw, type_rounding, overflow_checks) ==
    IF IsSome(raw.edit) THEN Err("edit is only supported for label components")
    ELSE IF ~IsSome(as_str(raw.default)) THEN Err("default must be a timer string HH:MM:SS")
    ELSE IF ~IsSome(raw.keybind) THEN Err("timer requires keybind section")
    ELSE With(parse_timer_default(Unwrap(as_str(raw.default)), overflow_checks),
              LAMBDA default_ms :
         LET binds == Unwrap(raw.keybind)
             rounding == parse_timer_rounding(type_rounding, raw.rounding)
             start == parse_keybind(binds, "start")
             stop == parse_keybind(binds, "stop")
         IN  IF first_failure(<<rounding, default_ms, start, stop>>).tag # "Ok"
             THEN first_failure(<<rounding, default_ms, start, stop>>)
             ELSE Ok(Bound(Timer(id, raw.position.x, raw.position.y,
                                 held(default_ms.value), rounding.value),
                           TimerKeybind(Some(start.value), Some(stop.value), None, None, None))))

\* The `"label"` arm: any string is taken as the default
compile_label(id, raw) ==
    IF ~IsSome(as_str(raw.default)) THEN Err("default must be a string")
    ELSE Ok(Label(id, raw.position.x, raw.position.y, Unwrap(as_str(raw.default)),
                  IF IsSome(raw.edit) THEN Unwrap(raw.edit) ELSE FALSE))

\* The `"image"` arm; opacity in hundredths
compile_image(id, raw, base_dir) ==
    IF IsSome(raw.edit) THEN Err("edit is only supported for label components")
    ELSE IF ~IsSome(raw.source) THEN Err("image requires source")
    ELSE IF ~IsSome(raw.size) THEN Err("image requires size.width and size.height")
    ELSE IF Unwrap(raw.size).width <= 0 \/ Unwrap(raw.size).height <= 0
         THEN Err("image size must be > 0")
    ELSE LET opacity == IF IsSome(raw.opacity) THEN Unwrap(raw.opacity) ELSE 100 IN
         IF ~(opacity >= 0 /\ opacity <= 100) THEN Err("opacity must be between 0.0 and 1.0")
         ELSE Ok(Image(id, raw.position.x, raw.position.y,
                       resolve_image_source(base_dir, Unwrap(raw.source))))

\* The body of the loop over the table, for one component
compile_component(id, raw, global_font, base_dir, overflow_checks) ==
    IF ~IsSome(raw.position) THEN Err("Invalid component")
    ELSE LET font == resolve_font(global_font, raw.font)
             positioned == [raw EXCEPT !.position = Unwrap(raw.position)]
             checks == <<validate_id(id), validate_position(positioned.position),
                         validate_font(font), parse_component_type(raw.component_type)>>
         IN  IF first_failure(checks).tag # "Ok" THEN first_failure(checks)
             ELSE LET type == checks[4].value IN
                  CASE type.component_type = "number" -> compile_number(id, positioned)
                    [] type.component_type = "timer" ->
                          compile_timer(id, positioned, type.rounding, overflow_checks)
                    [] type.component_type = "label" -> compile_label(id, positioned)
                    [] type.component_type = "image" -> compile_image(id, positioned, base_dir)
                    [] OTHER -> Err("has unsupported type")

\* The loop over the table from entry i on, pushing onto components
RECURSIVE compile_loop(_, _, _, _, _, _)
compile_loop(table, i, global_font, base_dir, overflow_checks, components) ==
    IF i > Len(table) THEN Ok(components)
    ELSE With(compile_component(table[i].id, table[i].value, global_font,
                                base_dir, overflow_checks), LAMBDA compiled :
              IF compiled.tag # "Ok" THEN compiled
              ELSE With(Append(components, compiled.value), LAMBDA pushed :
                        compile_loop(table, i + 1, global_font, base_dir,
                                     overflow_checks, pushed)))

\* A document the TOML parser takes: no key twice in a table
toml_parses(content) ==
    /\ content.well_formed
    /\ \A i, j \in 1..Len(content.table) :
          content.table[i].id = content.table[j].id => i = j

\* load_config_from_str_with_base without the final sort
load_config_from_str_with_base_Unsorted(content, base_dir, overflow_checks) ==
    IF ~toml_parses(content) THEN Err("TOML parse error")
    ELSE LET global == parse_global_settings(content.global) IN
         IF global.tag # "Ok" THEN global
         ELSE With(compile_loop(content.table, 1, global.value.font,
                                base_dir, overflow_checks, <<>>), LAMBDA components :
                   IF components.tag # "Ok" THEN components
                   ELSE Ok(ScoreboardConfig(global.value.background_color, components.value)))

\* load_config_from_str_with_base, in a build with or without overflow checks
load_config_from_str_with_base(content, base_dir, overflow_checks) ==
    IF ~toml_parses(content) THEN Err("TOML parse error")
    ELSE LET global == parse_global_settings(content.global) IN
         IF global.tag # "Ok" THEN global
         ELSE With(compile_loop(content.table, 1, global.value.font,
                                base_dir, overflow_checks, <<>>), LAMBDA components :
                   IF components.tag # "Ok" THEN components
                   ELSE Ok(ScoreboardConfig(global.value.background_color,
                                            sort_by_id(components.value))))

\* std::env::current_dir()
current_dir == <<"/", "app">>

\* load_config_from_str
load_config_from_str(content, overflow_checks) ==
    load_config_from_str_with_base(content, current_dir, overflow_checks)

----------------------------------------------------------------------------

(* The timer arms and the tick on a remaining_ms that the checker's own     *)
(* integers cannot hold: remaining_ms and default_ms are i64 limbs here.    *)
(* A build with overflow checks panics where the arithmetic overflows,      *)
(* with what was stored before; a build without them stores the wrapped     *)
(* value.                                                                    *)

\* a + b + c on the 64 bits, limb by limb from limb i
RECURSIVE add_from(_, _, _, _)
add_from(a, b, c, i) ==
    IF i > 4 THEN <<>>
    ELSE With(a[i] + b[i] + c, LAMBDA t : <<t % LIMB>> \o add_from(a, b, t \div LIMB, i + 1))

\* i64 a + k for an integer k the checker can hold, and whether it overflows
wrapping_add(a, k) ==
    With(add_from(a, to_i64(k), 0, 1), LAMBDA sum :
         [value |-> sum,
          overflow |-> is_negative(a) = (k < 0) /\ is_negative(sum) # is_negative(a)])

\* remaining_ms > 0
positive(x) == ~is_negative(x) /\ x # to_i64(0)

\* .max(0)
max_0(x) == IF is_negative(x) THEN to_i64(0) ELSE x

Done(timer, changed) == [timer |-> timer, changed |-> changed, panic |-> FALSE]

Panicked(timer) == [timer |-> timer, changed |-> FALSE, panic |-> TRUE]

sync_timer_i64(timer, t, overflow_checks) ==
    IF ~timer.running THEN Done(timer, FALSE)
    ELSE LET lt == IF IsSome(timer.last_tick) THEN Unwrap(timer.last_tick) ELSE t
             elapsed_ms == as_millis(t - lt)
         IN  With(wrapping_add(timer.remaining_ms, -elapsed_ms), LAMBDA difference :
             IF elapsed_ms > 0 /\ difference.overflow /\ overflow_checks THEN Panicked(timer)
             ELSE LET rem == IF elapsed_ms > 0 THEN max_0(difference.value)
                             ELSE timer.remaining_ms
                  IN  IF positive(rem)
                      THEN Done(TimerRuntime(rem, timer.running, Some(t)), TRUE)
                      ELSE Done(TimerRuntime(rem, FALSE, None), TRUE))

\* `if timer.running { sync_timer(timer, now) }`
synced_i64(timer, t, overflow_checks) ==
    IF timer.running THEN sync_timer_i64(timer, t, overflow_checks) ELSE Done(timer, FALSE)

\* The tail of TimerReset and TimerDecrease
Reanchor_i64(timer, t) ==
    IF timer.running
    THEN IF positive(timer.remaining_ms)
         THEN TimerRuntime(timer.remaining_ms, timer.running, Some(t))
         ELSE TimerRuntime(timer.remaining_ms, FALSE, None)
    ELSE timer

TimerStart_i64(timer, t) ==
    IF positive(timer.remaining_ms) /\ ~timer.running
    THEN Done(TimerRuntime(timer.remaining_ms, TRUE, Some(t)), TRUE)
    ELSE Done(timer, FALSE)

TimerStop_i64(timer, t, overflow_checks) ==
    IF ~timer.running THEN Done(timer, FALSE)
    ELSE With(sync_timer_i64(timer, t, overflow_checks), LAMBDA synced :
         IF synced.panic THEN synced
         ELSE Done(TimerRuntime(synced.timer.remaining_ms, FALSE, None), TRUE))

TimerReset_i64(timer, default, t, overflow_checks) ==
    With(synced_i64(timer, t, overflow_checks), LAMBDA synced :
    IF synced.panic THEN synced
    ELSE Done(Reanchor_i64([synced.timer EXCEPT !.remaining_ms = default], t), TRUE))

TimerIncrease_i64(timer, t, overflow_checks) ==
    With(synced_i64(timer, t, overflow_checks), LAMBDA synced :
    IF synced.panic THEN synced
    ELSE With(wrapping_add(synced.timer.remaining_ms, TIMER_STEP_MS), LAMBDA sum :
         IF sum.overflow /\ overflow_checks THEN Panicked(synced.timer)
         ELSE LET added == [synced.timer EXCEPT !.remaining_ms = sum.value]
              IN  Done(IF added.running THEN [added EXCEPT !.last_tick = Some(t)] ELSE added,
                       TRUE)))

TimerDecrease_i64(timer, t, overflow_checks) ==
    With(synced_i64(timer, t, overflow_checks), LAMBDA synced :
    IF synced.panic THEN synced
    ELSE With(wrapping_add(synced.timer.remaining_ms, -TIMER_STEP_MS), LAMBDA difference :
         IF difference.overflow /\ overflow_checks THEN Panicked(synced.timer)
         ELSE Done(Reanchor_i64([synced.timer EXCEPT !.remaining_ms = max_0(difference.value)],
                                t),
                   TRUE)))

\* The five timer arms of apply_action for the timer of id
apply_action_i64(rt, action, t, overflow_checks) ==
    IF action.id \notin DOMAIN rt.timer_values THEN Done(<<>>, FALSE)
    ELSE LET timer == rt.timer_values[action.id]
             found == FindComponent(Unwrap(rt.config), action.id, "Timer")
         IN  CASE action.tag = "TimerStart" -> TimerStart_i64(timer, t)
               [] action.tag = "TimerStop" -> TimerStop_i64(timer, t, overflow_checks)
               [] action.tag = "TimerReset" ->
                     IF IsSome(found)
                     THEN TimerReset_i64(timer, Unwrap(found).default_ms, t, overflow_checks)
                     ELSE Done(timer, FALSE)
               [] action.tag = "TimerIncrease" -> TimerIncrease_i64(timer, t, overflow_checks)
               [] action.tag = "TimerDecrease" -> TimerDecrease_i64(timer, t, overflow_checks)

\* The body of tick_timers' loop; last_tick is stored before the subtraction
tick_one_i64(timer, t, overflow_checks) ==
    IF ~timer.running THEN Done(timer, FALSE)
    ELSE LET lt == IF IsSome(timer.last_tick) THEN Unwrap(timer.last_tick) ELSE t
             elapsed_ms == as_millis(t - lt)
         IN  IF elapsed_ms <= 0 THEN Done(timer, FALSE)
             ELSE With(wrapping_add(timer.remaining_ms, -elapsed_ms), LAMBDA difference :
                  IF difference.overflow /\ overflow_checks
                  THEN Panicked([timer EXCEPT !.last_tick = Some(t)])
                  ELSE LET new_value == max_0(difference.value)
                           stop == new_value = to_i64(0) /\ timer.running
                       IN  Done(TimerRuntime(new_value,
                                             IF stop THEN FALSE ELSE timer.running,
                                             IF stop THEN None ELSE Some(t)),
                                new_value # timer.remaining_ms))

----------------------------------------------------------------------------

(* Formatting and snapshot *)

Digit(d) == <<"0", "1", "2", "3", "4", "5", "6", "7", "8", "9">>[d + 1]

\* Display of a non-negative integer
RECURSIVE Decimal(_)
Decimal(n) == IF n < 10 THEN <<Digit(n)>> ELSE Decimal(n \div 10) \o <<Digit(n % 10)>>

\* The digits of -v for a negative v, i32::MIN included, whose -v is no i32
DecimalOfNegated(v) ==
    LET ones == (10 - (v % 10)) % 10
        tens == -((v + ones) \div 10)
    IN  (IF tens = 0 THEN <<>> ELSE Decimal(tens)) \o <<Digit(ones)>>

\* i32::to_string
to_string(v) == IF v < 0 THEN <<"-">> \o DecimalOfNegated(v) ELSE Decimal(v)

\* {n:02}
Pad2(n) == IF n < 10 THEN <<"0">> \o Decimal(n) ELSE Decimal(n)

\* format_ms_standard that prints the hours whatever they are
format_ms_standard_AlwaysHours(ms) ==
    LET total_seconds == Max(ms, 0) \div 1000
        hours == total_seconds \div 3600
        minutes == (total_seconds % 3600) \div 60
        seconds == total_seconds % 60
    IN  Pad2(hours) \o <<":">> \o Pad2(minutes) \o <<":">> \o Pad2(seconds)

format_ms_standard(ms) ==
    LET total_seconds == Max(ms, 0) \div 1000
        hours == total_seconds \div 3600
        minutes == (total_seconds % 3600) \div 60
        seconds == total_seconds % 60
    IN  IF hours > 0
        THEN Pad2(hours) \o <<":">> \o Pad2(minutes) \o <<":">> \o Pad2(seconds)
        ELSE Pad2(minutes) \o <<":">> \o Pad2(seconds)

\* format_ms_basketball that drops the fraction instead of rounding it
format_ms_basketball_Truncates(ms) ==
    LET clamped_ms == Max(ms, 0) IN
    IF clamped_ms < 60000
    THEN LET tenths_total == clamped_ms \div 100
             seconds == tenths_total \div 10
             tenths == tenths_total % 10
         IN  Decimal(seconds) \o <<".">> \o Decimal(tenths)
    ELSE LET rounded_seconds == clamped_ms \div 1000
             hours == rounded_seconds \div 3600
             minutes == (rounded_seconds % 3600) \div 60
             seconds == rounded_seconds % 60
         IN  IF hours > 0
             THEN Decimal(hours) \o <<":">> \o Decimal(minutes) \o <<":">> \o Pad2(seconds)
             ELSE Decimal(minutes) \o <<":">> \o Pad2(seconds)

format_ms_basketball(ms) ==
    LET clamped_ms == Max(ms, 0) IN
    IF clamped_ms < 60000
    THEN LET tenths_total == (clamped_ms + 50) \div 100
             seconds == tenths_total \div 10
             tenths == tenths_total % 10
         IN  Decimal(seconds) \o <<".">> \o Decimal(tenths)
    ELSE LET rounded_seconds == (clamped_ms + 500) \div 1000
             hours == rounded_seconds \div 3600
             minutes == (rounded_seconds % 3600) \div 60
             seconds == rounded_seconds % 60
         IN  IF hours > 0
             THEN Decimal(hours) \o <<":">> \o Decimal(minutes) \o <<":">> \o Pad2(seconds)
             ELSE Decimal(minutes) \o <<":">> \o Pad2(seconds)

format_ms(ms, rounding) ==
    IF rounding = "Standard" THEN format_ms_standard(ms) ELSE format_ms_basketball(ms)

UiComponent(c, component_type, text, source, editable) ==
    [id |-> c.id, component_type |-> component_type,
     x |-> c.position.x, y |-> c.position.y,
     text |-> text, source |-> source, editable |-> editable]

\* snapshot's closure over one component
snapshot_component(rt, c) ==
    CASE c.kind = "Number" ->
            UiComponent(c, "number",
                Some(to_string(IF c.id \in DOMAIN rt.number_values
                               THEN rt.number_values[c.id] ELSE 0)),
                None, FALSE)
      [] c.kind = "Timer" ->
            UiComponent(c, "timer",
                Some(format_ms(IF c.id \in DOMAIN rt.timer_values
                               THEN rt.timer_values[c.id].remaining_ms ELSE 0,
                               c.rounding)),
                None, FALSE)
      [] c.kind = "Label" ->
            UiComponent(c, "label",
                Some(IF c.id \in DOMAIN rt.label_values
                     THEN rt.label_values[c.id] ELSE <<>>),
                None, c.edit)
      [] c.kind = "Image" ->
            UiComponent(c, "image", None, Some(c.source), FALSE)
      [] c.kind = "ImageToggle" ->
            LET index == (IF c.id \in DOMAIN rt.image_toggle_indices
                          THEN rt.image_toggle_indices[c.id] ELSE 0) % Len(c.sources)
            IN  UiComponent(c, "image-toggle", None, Some(c.sources[index + 1]), FALSE)

\* `% sources.len()` with no source is a division by zero: snapshot panics
snapshot_panics(rt) ==
    /\ IsSome(rt.config)
    /\ \E i \in 1..Len(Unwrap(rt.config).components) :
          /\ Unwrap(rt.config).components[i].kind = "ImageToggle"
          /\ Len(Unwrap(rt.config).components[i].sources) = 0

snapshot(rt) ==
    IF ~IsSome(rt.config)
    THEN [background_color |-> "#000000", components |-> <<>>]
    ELSE LET config == Unwrap(rt.config) IN
         [background_color |-> config.global.background_color,
          components |-> [i \in 1..Len(config.components) |->
                            snapshot_component(rt, config.components[i])]]

----------------------------------------------------------------------------
(* The documents the user loads, as compiled schemas: components sorted by  *)
(* id, ids unique, timer defaults whole seconds, toggles with a source.     *)

\* The chord of a key alone
Key(key) == KeybindSpec(key, FALSE, FALSE, FALSE, FALSE)

ConfigA ==
    ScoreboardConfig("#000000",
        <<Bound(Timer("clock", 320, 40, 1000, "Basketball"),
                TimerKeybind(Some(KeybindSpec(<<" ", "F", "1">>, TRUE, FALSE, FALSE, FALSE)),
                             Some(Key(<<"F", "2">>)),
                             Some(KeybindSpec(<<"F", "1">>, TRUE, TRUE, TRUE, TRUE)),
                             None,
                             Some(Key(<<"Gamepad:", "S", "o", "u", "t", "h">>)))),
          Bound(Number("home", 100, 200, 0),
                NumberKeybind(Some(Key(<<"H">>)), None, Some(Key(<<"Gamepad:", "W", "e", "s", "t">>))))>>)

ConfigB ==
    ScoreboardConfig("#102030",
        <<Timer("clock", 320, 40, 0, "Standard"),
          Image("pic", 5, 5, "/b/pic.png")>>)

ConfigC ==
    ScoreboardConfig("#000000",
        <<Bound(Number("clock", 639, 479, -1), NumberKeybind(None, None, None)),
          Label("home", 10, 10, <<"H", "i">>, TRUE),
          Bound(ImageToggle("logo", 0, 0, <<"/c/one.png", "/c/two.png", "/c/three.png">>),
                ImageToggleKeybind(Some(Key(<<"N">>)), Some(Key(<<"P", " ">>))))>>)

ConfigD ==
    ScoreboardConfig("#000000",
        <<Label("home", 10, 10, <<"A">>, FALSE),
          ImageToggle("logo", 0, 0, <<"/d/only.png">>)>>)

Schemas == {ConfigA, ConfigB, ConfigC, ConfigD}

\* Ids that triggers and label edits may name; "nobody" is in no schema
Ids == {"clock", "home", "logo", "nobody"}

Actions == [tag : ActionTags, id : Ids]

\* Texts the label editor may send
LabelInputs == {<<"H", "i">>, <<"Y">>, <<"a", "\n">>, <<"\r">>}

\* The chords of a keybind table
Binds(names) == [name \in names |-> Key(<<"K">>)]

\* A document the TOML parser takes, with no [global] table
Document(table) == [well_formed |-> TRUE, global |-> None, table |-> table]

Entry(id, value) == [id |-> id, value |-> value]

\* A counter at i32::MAX and an editable label whose default has two lines,
\* the label first in the document
TextLimits ==
    Document(<<
        Entry("home", [RawComponent(TypeName("label"), Some(TomlString(<<"a", "\n", "b">>)),
                                    Some([x |-> 10, y |-> 10]))
                          EXCEPT !.edit = Some(TRUE)]),
        Entry("clock", [RawComponent(TypeName("number"),
                                     Some(TomlInteger(parse_i64(<<"2", "1", "4", "7", "4", "8",
                                                                 "3", "6", "4", "7">>).value)),
                                     Some([x |-> 0, y |-> 0]))
                           EXCEPT !.keybind = Some(Binds({"increase", "decrease", "reset"}))])>>)

\* A timer whose hours take the milliseconds past the i64
TextHours ==
    Document(<<
        Entry("clock", [RawComponent(TypeName("timer"),
                                     Some(TomlString(<<"5", "1", "2", "4", "0", "9", "5", "5",
                                                       "7", "6", "0", "3", "0", "4", "3", "1",
                                                       ":", "0", "0", ":", "1", "5">>)),
                                     Some([x |-> 320, y |-> 40]))
                           EXCEPT !.keybind = Some(Binds({"start", "stop"}))])>>)

\* A timer 807 ms below the largest i64, in a document of its own: its
\* remaining_ms is held as limbs
TextTop ==
    Document(<<
        Entry("clock", [RawComponent(TypeName("timer"),
                                     Some(TomlString(<<"2", "5", "6", "2", "0", "4", "7", "7",
                                                       "8", "8", "0", "1", "5",
                                                       ":", "1", "2", ":", "5", "5">>)),
                                     Some([x |-> 320, y |-> 40]))
                           EXCEPT !.keybind = Some(Binds({"start", "stop"}))])>>)

\* A component on the right edge of the canvas
TextOutside ==
    Document(<<
        Entry("home", RawComponent(TypeName("label"), Some(TomlString(<<"H", "i">>)),
                                   Some([x |-> CANVAS_WIDTH, y |-> 0])))>>)

\* The texts the user pastes into the editor of the configuration
\* Two timers of one second
TextTimers ==
    Document(<<
        Entry("home", [RawComponent(TypeName("timer"),
                                    Some(TomlString(<<"0", "0", ":", "0", "0", ":", "0", "1">>)),
                                    Some([x |-> 100, y |-> 200]))
                          EXCEPT !.keybind = Some(Binds({"start", "stop"}))]),
        Entry("clock", [RawComponent(TypeName("timer"),
                                     Some(TomlString(<<"0", "0", ":", "0", "0", ":", "0", "1">>)),
                                     Some([x |-> 320, y |-> 40]))
                           EXCEPT !.keybind = Some(Binds({"start", "stop"}))])>>)

\* Two counters
TextNumbers ==
    Document(<<
        Entry("clock", [RawComponent(TypeName("number"), Some(TomlInteger(to_i64(1))),
                                     Some([x |-> 320, y |-> 40]))
                           EXCEPT !.keybind = Some(Binds({"increase", "decrease", "reset"}))]),
        Entry("home", [RawComponent(TypeName("number"), Some(TomlInteger(to_i64(0))),
                                    Some([x |-> 100, y |-> 200]))
                          EXCEPT !.keybind = Some(Binds({"increase", "decrease", "reset"}))])>>)

Texts == {TextLimits, TextHours, TextOutside}

\* What load_config_from_str returns for each of them, in either build
Compiled ==
    [content \in Texts \cup {TextTop, TextTimers, TextNumbers} |->
        [overflow_checks \in BOOLEAN |-> load_config_from_str(content, overflow_checks)]]

\* How far the clock may move between two operations, in clock units:
\* a fraction of a millisecond, a millisecond and a fraction, a second
Deltas == {1, InstantPerMs + 1, 1000 * InstantPerMs}

----------------------------------------------------------------------------
(* The application shell (lib.rs): its threads, its mutexes, what it loads *)

\* The thread of the 50 ms timer loop, the two that deliver triggers, the one
\* that runs the UI's commands, and the one the file watcher calls back on
Threads == {"tick", "keyboard", "gamepad", "command", "watcher"}

\* The Arc<Mutex<..>> fields of AppState
Mutexes ==
    {"runtime", "action_by_shortcut", "action_by_gamepad", "hotkeys_paused",
     "active_config_path", "config_watcher"}

Free == "free"

\* A thread that is in no handler, and one that is about to return from one
Idle == "idle"

Returning == "return"

\* thread::sleep(Duration::from_millis(50)) of the timer loop
TICK_SLEEP_MS == 50

\* How many threads may be inside a handler at the same time
MaxInFlight == 2

\* How many times the timer loop sleeps
MaxSleeps == 1

\* The locks with unregister_hotkeys taking action_by_gamepad first
Locks_GamepadFirst ==
    {<<"tick.lock", "runtime", "tick.body">>,
     <<"handle.lock_paused", "hotkeys_paused", "handle.read_paused">>,
     <<"handle_shortcut.lock_map", "action_by_shortcut", "handle.lookup">>,
     <<"handle_gamepad_button.lock_map", "action_by_gamepad", "handle.lookup">>,
     <<"handle.lock_runtime", "runtime", "handle.apply">>,
     <<"update_label_text.lock", "runtime", "update_label_text.body">>,
     <<"set_hotkeys_paused.lock", "hotkeys_paused", "set_hotkeys_paused.body">>,
     <<"apply_config.lock_runtime", "runtime", "apply_config.replace">>,
     <<"apply_config.lock_paused", "hotkeys_paused", "apply_config.read_paused">>,
     <<"apply_config.lock_restore", "runtime", "apply_config.restore">>,
     <<"unregister_hotkeys.lock_shortcut", "action_by_gamepad", "unregister_hotkeys.lock_gamepad">>,
     <<"unregister_hotkeys.lock_gamepad", "action_by_shortcut", "unregister_hotkeys.body">>,
     <<"register_hotkeys.lock_runtime", "runtime", "register_hotkeys.collect">>,
     <<"register_hotkeys.lock_shortcut", "action_by_shortcut", "register_hotkeys.lock_gamepad">>,
     <<"register_hotkeys.lock_gamepad", "action_by_gamepad", "register_hotkeys.body">>,
     <<"emit_snapshot.lock", "runtime", "emit_snapshot.body">>,
     <<"configure_config_hot_reload.lock_path", "active_config_path", "configure_config_hot_reload.set_path">>,
     <<"configure_config_hot_reload.lock_watcher", "config_watcher", "configure_config_hot_reload.body">>,
     <<"reload_active_config.lock_path", "active_config_path", "reload_active_config.body">>}

\* Every `.lock()` of lib.rs: where the thread is when it calls it, the mutex,
\* and where it is once it holds the guard. The guards of action_by_shortcut
\* in register_hotkeys and unregister_hotkeys live to the end of the function,
\* so action_by_gamepad is locked while they are held.
Locks ==
    {<<"tick.lock", "runtime", "tick.body">>,
     <<"handle.lock_paused", "hotkeys_paused", "handle.read_paused">>,
     <<"handle_shortcut.lock_map", "action_by_shortcut", "handle.lookup">>,
     <<"handle_gamepad_button.lock_map", "action_by_gamepad", "handle.lookup">>,
     <<"handle.lock_runtime", "runtime", "handle.apply">>,
     <<"update_label_text.lock", "runtime", "update_label_text.body">>,
     <<"set_hotkeys_paused.lock", "hotkeys_paused", "set_hotkeys_paused.body">>,
     <<"apply_config.lock_runtime", "runtime", "apply_config.replace">>,
     <<"apply_config.lock_paused", "hotkeys_paused", "apply_config.read_paused">>,
     <<"apply_config.lock_restore", "runtime", "apply_config.restore">>,
     <<"unregister_hotkeys.lock_shortcut", "action_by_shortcut", "unregister_hotkeys.lock_gamepad">>,
     <<"unregister_hotkeys.lock_gamepad", "action_by_gamepad", "unregister_hotkeys.body">>,
     <<"register_hotkeys.lock_runtime", "runtime", "register_hotkeys.collect">>,
     <<"register_hotkeys.lock_shortcut", "action_by_shortcut", "register_hotkeys.lock_gamepad">>,
     <<"register_hotkeys.lock_gamepad", "action_by_gamepad", "register_hotkeys.body">>,
     <<"emit_snapshot.lock", "runtime", "emit_snapshot.body">>,
     <<"configure_config_hot_reload.lock_path", "active_config_path", "configure_config_hot_reload.set_path">>,
     <<"configure_config_hot_reload.lock_watcher", "config_watcher", "configure_config_hot_reload.body">>,
     <<"reload_active_config.lock_path", "active_config_path", "reload_active_config.body">>}

\* The locals of a handler: the stack of places to return to, the handler's
\* argument, and what apply_config, register_hotkeys, the trigger handlers
\* and emit_snapshot keep between two locks
Blank ==
    [ret |-> <<>>, arg |-> None, config |-> None, previous_runtime |-> None,
     paused |-> FALSE, error |-> None, result |-> None, maps |-> None,
     action |-> None, snapshot |-> None]

\* AppState as run() builds it, with every thread idle
ShellInit(limit) ==
    /\ action_by_shortcut = EmptyMap
    /\ action_by_gamepad = EmptyMap
    /\ hotkeys_paused = FALSE
    /\ active_config_path = None
    /\ config_watcher = None
    /\ owner = [m \in Mutexes |-> Free]
    /\ pc = [t \in Threads |-> Idle]
    /\ frame = [t \in Threads |-> Blank]
    /\ in_flight_limit = limit
    /\ emitted = None

\* The documents a load may find: a timer started from the keyboard and
\* stopped from the gamepad, an editable label under the same id, a number
\* under the same id one of whose chords cannot be registered, and a text
\* that does not compile
TimerDoc ==
    ScoreboardConfig("#000000",
        <<Bound(Timer("clock", 320, 40, 1000, "Standard"),
                TimerKeybind(Some(Key(<<"S">>)), Some(Key(<<"Gamepad:", "A">>)),
                             None, None, None))>>)

LabelDoc ==
    ScoreboardConfig("#000000", <<Label("clock", 10, 10, <<"A">>, TRUE)>>)

TakenDoc ==
    ScoreboardConfig("#000000",
        <<Bound(Number("clock", 100, 200, 0),
                NumberKeybind(Some(Key(<<"S">>)), None, Some(Key(<<"Q">>))))>>)

Documents == {"timer.toml", "label.toml", "taken.toml", "broken.toml"}

\* config::load_config_from_path / load_config_from_str on a document
load_config(doc) ==
    CASE doc = "timer.toml" -> Ok(TimerDoc)
      [] doc = "label.toml" -> Ok(LabelDoc)
      [] doc = "taken.toml" -> Ok(TakenDoc)
      [] OTHER -> Err("TOML parse error")

\* Where a load may come from: a file, or text with no file behind it
Paths == {None, Some("/cfg/board.toml")}

\* The shortcuts the keyboard plugin may report, the buttons the gamepad may
KeyboardKeys == {<<"S">>}

GamepadButtons == {<<"A">>}

\* What update_label_text may be called with
LabelEdits == {<<"clock", <<"Y">>>>}

\* Shortcut::from_str or global_shortcut().register answers Err for this chord
Refused(shortcut) == shortcut = <<"Q">>

\* register_hotkeys' loop over the bindings, from binding i on
RECURSIVE register_loop(_, _, _, _)
register_loop(bindings, i, keyboard_action_map, gamepad_action_map) ==
    IF i > Len(bindings)
    THEN Ok([keyboard |-> keyboard_action_map, gamepad |-> gamepad_action_map])
    ELSE LET binding == bindings[i] IN
         IF binding.shortcut # <<>> /\ binding.shortcut[1] = "Gamepad:"
         THEN register_loop(bindings, i + 1, keyboard_action_map,
                            Insert(gamepad_action_map, Tail(binding.shortcut), binding.action))
         ELSE IF Refused(binding.shortcut)
         THEN Err("Failed to register")
         ELSE register_loop(bindings, i + 1,
                            Insert(keyboard_action_map, binding.shortcut, binding.action),
                            gamepad_action_map)

----------------------------------------------------------------------------

(* The state machine *)

Init ==
    /\ runtime = new
    /\ now = 0
    /\ steps = 0
    /\ last = [op |-> "new"]
    /\ anchor = EmptyMap
    /\ ShellInit(0)

\* Time passes
Advance(d) ==
    /\ steps < MaxSteps
    /\ now' = now + d
    /\ steps' = steps + 1
    /\ last' = [op |-> "advance"]
    /\ UNCHANGED <<runtime, anchor, appvars>>

\* Some timer is Running
AnyRunning(rt) == \E id \in DOMAIN rt.timer_values : rt.timer_values[id].running

\* lib.rs apply_config: runtime.replace_config(config)
ReplaceConfig(config) ==
    /\ runtime' = replace_config(runtime, config)
    /\ last' = [op |-> "replace_config", was_running |-> AnyRunning(runtime)]
    /\ anchor' = [id \in DOMAIN runtime'.timer_values |-> None]
    /\ UNCHANGED <<now, steps, appvars>>

\* The anchors of the timers that are Running now; the others have none
Live(m) ==
    [id \in DOMAIN runtime.timer_values |->
        IF runtime.timer_values[id].running /\ id \in DOMAIN m THEN m[id] ELSE None]

\* lib.rs load_config_from_text: config::load_config_from_str(&text)?, then
\* apply_config's runtime.replace_config(config); the compiler as a build with
\* overflow checks or one without runs it
LoadConfigFromText(content) ==
    /\ \E overflow_checks \in BOOLEAN :
          LET config == Compiled[content][overflow_checks] IN
          IF config.tag = "Ok"
          THEN /\ runtime' = replace_config(runtime, config.value)
               /\ last' = [op |-> "load_config_from_text", result |-> "Ok"]
               /\ anchor' = [id \in DOMAIN runtime'.timer_values |-> None]
          ELSE /\ runtime' = runtime
               /\ last' = [op |-> IF config.tag = "Panic" THEN "overflow"
                                  ELSE "load_config_from_text",
                           result |-> config.tag]
               /\ anchor' = Live(anchor)
    /\ UNCHANGED <<now, steps, appvars>>

\* Where the action leaves the timers anchored. An action that changed a
\* timer and left it Running anchors it at (now, remaining_ms); a Stop keeps
\* the anchor of the timer it stopped, for the value it leaves to be compared
\* with; every other timer keeps its own.
AnchorAfter(action, result) ==
    IF /\ action.tag \in {"TimerStart", "TimerStop", "TimerReset", "TimerIncrease", "TimerDecrease"}
       /\ action.id \in DOMAIN result.rt.timer_values
       /\ result.changed
    THEN LET timer == result.rt.timer_values[action.id] IN
         IF timer.running
         THEN [Live(anchor) EXCEPT ![action.id] = Some([t0 |-> now, R |-> timer.remaining_ms])]
         ELSE IF action.tag = "TimerStop" THEN Live(anchor)
         ELSE [Live(anchor) EXCEPT ![action.id] = None]
    ELSE Live(anchor)

\* The model stops counting at its bounds, and counts on at the two ends of
\* the i32
WithinBounds(action) ==
    /\ action.tag = "NumberIncrease" /\ action.id \in DOMAIN runtime.number_values
          => \/ runtime.number_values[action.id] = I32_MAX
             \/ /\ runtime.number_values[action.id] < MaxNumber
                /\ runtime.number_values[action.id] >= -MaxNumber
    /\ action.tag = "NumberDecrease" /\ action.id \in DOMAIN runtime.number_values
          => runtime.number_values[action.id] <= MaxNumber
    /\ action.tag = "TimerIncrease" /\ action.id \in DOMAIN runtime.timer_values
          => runtime.timer_values[action.id].remaining_ms + TIMER_STEP_MS <= MaxTimerSeconds * 1000

\* lib.rs handle_shortcut / handle_gamepad_button: runtime.apply_action(&action),
\* as a build with overflow checks or one without runs it; the two differ
\* only where the arithmetic overflows, and there the first panics before it
\* stores anything
ApplyAction(action) ==
    /\ WithinBounds(action)
    /\ \E overflow_checks \in BOOLEAN :
          IF overflow_checks /\ apply_action_overflows(runtime, action)
          THEN /\ runtime' = runtime
               /\ last' = [op |-> "overflow", changed |-> FALSE]
               /\ anchor' = Live(anchor)
          ELSE LET result == apply_action(runtime, action, now) IN
               /\ runtime' = result.rt
               /\ last' = [op |-> action.tag, changed |-> result.changed]
               /\ anchor' = AnchorAfter(action, result)
    /\ UNCHANGED <<now, steps, appvars>>

\* lib.rs spawn_timer_thread: runtime.tick_timers()
Tick ==
    /\ LET result == tick_timers(runtime, now) IN
       /\ runtime' = result.rt
       /\ last' = [op |-> "tick_timers", changed |-> result.changed]
    /\ anchor' = Live(anchor)
    /\ UNCHANGED <<now, steps, appvars>>

\* lib.rs update_label_text: runtime.set_label_value(&id, value)
SetLabelValue(id, value) ==
    /\ LET result == set_label_value(runtime, id, value) IN
       /\ runtime' = result.rt
       /\ last' = [op |-> "set_label_value", result |-> result.result]
    /\ UNCHANGED <<now, steps, anchor, appvars>>

\* emit_snapshot bringing the timers up to date before it reads them
Snapshot_Syncs ==
    /\ runtime' = tick_timers(runtime, now).rt
    /\ last' = [op |-> IF snapshot_panics(runtime) THEN "panic" ELSE "snapshot",
                shown |-> IF snapshot_panics(runtime) THEN 0
                          ELSE Len(snapshot(runtime).components)]
    /\ UNCHANGED <<now, steps, anchor, appvars>>

\* lib.rs emit_snapshot: runtime.snapshot() under the lock; snapshot takes
\* &self, and panics on a toggle with no source (`index % sources.len()`)
Snapshot ==
    /\ runtime' = runtime
    /\ last' = [op |-> IF snapshot_panics(runtime) THEN "panic" ELSE "snapshot",
                shown |-> IF snapshot_panics(runtime) THEN 0
                          ELSE Len(snapshot(runtime).components)]
    /\ UNCHANGED <<now, steps, anchor, appvars>>

Next ==
    \/ \E d \in Deltas : Advance(d)
    \/ \E config \in Schemas : ReplaceConfig(config)
    \/ \E content \in Texts : LoadConfigFromText(content)
    \/ \E action \in Actions : ApplyAction(action)
    \/ Tick
    \/ \E id \in Ids, value \in LabelInputs : SetLabelValue(id, value)
    \/ Snapshot

Spec == Init /\ [][Next]_vars

----------------------------------------------------------------------------
(* The threads of the application shell, one step from a lock() to the next *)

\* What no handler writes
history == <<last, anchor, in_flight_limit, emitted>>

\* What the handlers share besides the runtime
shared ==
    <<action_by_shortcut, action_by_gamepad, hotkeys_paused, active_config_path,
      config_watcher>>

\* The unit value of Ok(())
Unit == "()"

InFlight == {t \in Threads : pc[t] # Idle}

\* A thread may enter a handler
CanStart(t) == pc[t] = Idle /\ Cardinality(InFlight) < in_flight_limit

\* The guards of these mutexes go out of scope
Release(ms) == owner' = [m \in Mutexes |-> IF m \in ms THEN Free ELSE owner[m]]

Goto(t, label, f) ==
    /\ pc' = [pc EXCEPT ![t] = label]
    /\ frame' = [frame EXCEPT ![t] = f]

\* The function returns to its caller, or the handler is about to end: a
\* command or the watcher's callback with a Result, the others with nothing
ReturnFrom(t, f, result) ==
    IF f.ret = <<>>
    THEN IF t \in {"command", "watcher"}
         THEN Goto(t, Returning, [Blank EXCEPT !.result = Some(result)])
         ELSE Goto(t, Idle, Blank)
    ELSE Goto(t, Head(f.ret), [f EXCEPT !.ret = Tail(@), !.result = Some(result)])

\* mutex.lock(): the thread waits until the mutex is free and takes it
Acquire(t) ==
    /\ \E e \in Locks :
          /\ pc[t] = e[1]
          /\ owner[e[2]] = Free
          /\ owner' = [owner EXCEPT ![e[2]] = t]
          /\ pc' = [pc EXCEPT ![t] = e[3]]
    /\ UNCHANGED <<runtime, now, steps, history, shared, frame>>

\* The handler has returned
Finish(t) ==
    /\ pc[t] = Returning
    /\ Goto(t, Idle, Blank)
    /\ UNCHANGED <<runtime, now, steps, history, shared, owner>>

\* emit_snapshot, once it holds the runtime: snapshot(), unlock, emit
EmitBody(t) ==
    /\ pc[t] = "emit_snapshot.body"
    /\ Release({"runtime"})
    /\ ReturnFrom(t, frame[t], Ok(Unit))
    /\ UNCHANGED <<runtime, now, steps, history, shared>>

\* spawn_timer_thread: thread::sleep(50 ms), during which the clock moves
TickSleep ==
    /\ CanStart("tick")
    /\ steps < MaxSleeps
    /\ now' = now + TICK_SLEEP_MS * InstantPerMs
    /\ steps' = steps + 1
    /\ Goto("tick", "tick.lock", Blank)
    /\ UNCHANGED <<runtime, history, shared, owner>>

\* spawn_timer_thread: runtime.tick_timers() under the lock, then the
\* snapshot if it returned true
TickBody ==
    /\ pc["tick"] = "tick.body"
    /\ LET r == tick_timers(runtime, now) IN
       /\ runtime' = r.rt
       /\ IF r.changed
          THEN Goto("tick", "emit_snapshot.lock", Blank)
          ELSE Goto("tick", Idle, Blank)
    /\ Release({"runtime"})
    /\ UNCHANGED <<now, steps, history, shared>>

\* handle_shortcut / handle_gamepad_button is called with a key
StartHandle(t, key) ==
    /\ CanStart(t)
    /\ Goto(t, "handle.lock_paused", [Blank EXCEPT !.arg = Some(key)])
    /\ UNCHANGED <<runtime, now, steps, history, shared, owner>>

\* `if paused { return; }`
HandleReadPaused(t) ==
    /\ pc[t] = "handle.read_paused"
    /\ Release({"hotkeys_paused"})
    /\ IF hotkeys_paused
       THEN ReturnFrom(t, Blank, Ok(Unit))
       ELSE Goto(t, IF t = "keyboard" THEN "handle_shortcut.lock_map"
                    ELSE "handle_gamepad_button.lock_map", frame[t])
    /\ UNCHANGED <<runtime, now, steps, history, shared>>

\* `guard.get(&shortcut).cloned()`, and the return when there is no action
HandleLookup(t) ==
    /\ pc[t] = "handle.lookup"
    /\ LET map == IF t = "keyboard" THEN action_by_shortcut ELSE action_by_gamepad
           key == Unwrap(frame[t].arg)
       IN  IF key \in DOMAIN map
           THEN Goto(t, "handle.lock_runtime", [frame[t] EXCEPT !.action = Some(map[key])])
           ELSE ReturnFrom(t, Blank, Ok(Unit))
    /\ Release({IF t = "keyboard" THEN "action_by_shortcut" ELSE "action_by_gamepad"})
    /\ UNCHANGED <<runtime, now, steps, history, shared>>

\* `runtime.apply_action(&action)` under the lock, then the snapshot if it
\* returned true
HandleApply(t) ==
    /\ pc[t] = "handle.apply"
    /\ LET r == apply_action(runtime, Unwrap(frame[t].action), now) IN
       /\ runtime' = r.rt
       /\ IF r.changed
          THEN Goto(t, "emit_snapshot.lock", Blank)
          ELSE ReturnFrom(t, Blank, Ok(Unit))
    /\ Release({"runtime"})
    /\ UNCHANGED <<now, steps, history, shared>>

\* The UI calls update_label_text(id, value)
StartUpdateLabel(edit) ==
    /\ CanStart("command")
    /\ Goto("command", "update_label_text.lock", [Blank EXCEPT !.arg = Some(edit)])
    /\ UNCHANGED <<runtime, now, steps, history, shared, owner>>

\* update_label_text: `runtime.set_label_value(&id, value)?` under the lock,
\* then the snapshot if it returned true
UpdateLabelBody ==
    /\ pc["command"] = "update_label_text.body"
    /\ LET edit == Unwrap(frame["command"].arg)
           r == set_label_value(runtime, edit[1], edit[2])
       IN  /\ runtime' = r.rt
           /\ IF r.result.tag = "Ok" /\ r.result.value
              THEN Goto("command", "emit_snapshot.lock", Blank)
              ELSE ReturnFrom("command", Blank,
                              IF r.result.tag = "Ok" THEN Ok(Unit) ELSE r.result)
    /\ Release({"runtime"})
    /\ UNCHANGED <<now, steps, history, shared>>

\* Where unregister_hotkeys begins, and register_hotkeys, which begins with it
EnterUnregister(t, f) == Goto(t, "unregister_hotkeys.lock_shortcut", f)

EnterRegister(t, f) ==
    Goto(t, "unregister_hotkeys.lock_shortcut",
         [f EXCEPT !.ret = <<"register_hotkeys.lock_runtime">> \o @])

\* The UI calls set_hotkeys_paused(paused)
StartSetPaused(paused) ==
    /\ CanStart("command")
    /\ Goto("command", "set_hotkeys_paused.lock", [Blank EXCEPT !.arg = Some(paused)])
    /\ UNCHANGED <<runtime, now, steps, history, shared, owner>>

\* set_hotkeys_paused: `*guard = paused`, then unregister or register
SetPausedBody ==
    /\ pc["command"] = "set_hotkeys_paused.body"
    /\ hotkeys_paused' = Unwrap(frame["command"].arg)
    /\ Release({"hotkeys_paused"})
    /\ IF Unwrap(frame["command"].arg)
       THEN EnterUnregister("command", Blank)
       ELSE EnterRegister("command", Blank)
    /\ UNCHANGED <<runtime, now, steps, history, action_by_shortcut, action_by_gamepad,
                   active_config_path, config_watcher>>

\* unregister_hotkeys, holding both maps: both are cleared
UnregisterBody(t) ==
    /\ pc[t] = "unregister_hotkeys.body"
    /\ action_by_shortcut' = EmptyMap
    /\ action_by_gamepad' = EmptyMap
    /\ Release({"action_by_shortcut", "action_by_gamepad"})
    /\ ReturnFrom(t, frame[t], Ok(Unit))
    /\ UNCHANGED <<runtime, now, steps, history, hotkeys_paused, active_config_path,
                   config_watcher>>

\* register_hotkeys: collect_hotkeys() under the lock, then the loop that
\* registers the shortcuts and fills the two local maps, or fails
RegisterCollect(t) ==
    /\ pc[t] = "register_hotkeys.collect"
    /\ LET r == register_loop(collect_hotkeys(runtime), 1, EmptyMap, EmptyMap) IN
       IF r.tag = "Err"
       THEN ReturnFrom(t, frame[t], r)
       ELSE Goto(t, "register_hotkeys.lock_shortcut", [frame[t] EXCEPT !.maps = Some(r.value)])
    /\ Release({"runtime"})
    /\ UNCHANGED <<runtime, now, steps, history, shared>>

\* register_hotkeys, holding both maps: the local maps are stored
RegisterBody(t) ==
    /\ pc[t] = "register_hotkeys.body"
    /\ action_by_shortcut' = Unwrap(frame[t].maps).keyboard
    /\ action_by_gamepad' = Unwrap(frame[t].maps).gamepad
    /\ Release({"action_by_shortcut", "action_by_gamepad"})
    /\ ReturnFrom(t, [frame[t] EXCEPT !.maps = None], Ok(Unit))
    /\ UNCHANGED <<runtime, now, steps, history, hotkeys_paused, active_config_path,
                   config_watcher>>

\* load_config_from_file / load_config_from_text: the document is compiled,
\* and `?` returns its error before anything else is done
StartLoad(doc, path) ==
    /\ CanStart("command")
    /\ LET config == load_config(doc) IN
       IF config.tag = "Err"
       THEN Goto("command", Returning, [Blank EXCEPT !.result = Some(config)])
       ELSE Goto("command", "apply_config.lock_runtime",
                 [Blank EXCEPT !.arg = Some(path), !.config = Some(config.value),
                               !.ret = <<"load.after_apply">>])
    /\ UNCHANGED <<runtime, now, steps, history, shared, owner>>

\* apply_config: `previous = runtime.clone(); runtime.replace_config(config)`
ApplyReplace(t) ==
    /\ pc[t] = "apply_config.replace"
    /\ runtime' = replace_config(runtime, Unwrap(frame[t].config))
    /\ Release({"runtime"})
    /\ Goto(t, "apply_config.lock_paused",
            [frame[t] EXCEPT !.previous_runtime = Some(runtime), !.config = None])
    /\ UNCHANGED <<now, steps, history, shared>>

\* apply_config: `paused` is read, then unregister or register
ApplyReadPaused(t) ==
    /\ pc[t] = "apply_config.read_paused"
    /\ Release({"hotkeys_paused"})
    /\ LET f == [frame[t] EXCEPT !.paused = hotkeys_paused,
                                 !.ret = <<"apply_config.hotkey_result">> \o @]
       IN  IF hotkeys_paused THEN EnterUnregister(t, f) ELSE EnterRegister(t, f)
    /\ UNCHANGED <<runtime, now, steps, history, shared>>

\* apply_config: `if let Err(error) = hotkey_result`, else the snapshot
ApplyHotkeyResult(t) ==
    /\ pc[t] = "apply_config.hotkey_result"
    /\ IF Unwrap(frame[t].result).tag = "Err"
       THEN Goto(t, "apply_config.lock_restore",
                 [frame[t] EXCEPT !.error = frame[t].result, !.result = None])
       ELSE Goto(t, "emit_snapshot.lock",
                 [frame[t] EXCEPT !.previous_runtime = None, !.result = None,
                                  !.paused = FALSE])
    /\ UNCHANGED <<runtime, now, steps, history, shared, owner>>

\* The rollback putting back the previous schema and leaving the values of
\* the load that failed
ApplyRestore_SchemaOnly(t) ==
    /\ pc[t] = "apply_config.restore"
    /\ runtime' = [runtime EXCEPT !.config = Unwrap(frame[t].previous_runtime).config]
    /\ Release({"runtime"})
    /\ LET f == [frame[t] EXCEPT !.ret = <<"apply_config.fail">> \o @] IN
       IF frame[t].paused THEN EnterUnregister(t, f) ELSE EnterRegister(t, f)
    /\ UNCHANGED <<now, steps, history, shared>>

\* apply_config: `*runtime = previous_runtime`, then unregister or register
\* again with the result dropped
ApplyRestore(t) ==
    /\ pc[t] = "apply_config.restore"
    /\ runtime' = Unwrap(frame[t].previous_runtime)
    /\ Release({"runtime"})
    /\ LET f == [frame[t] EXCEPT !.ret = <<"apply_config.fail">> \o @] IN
       IF frame[t].paused THEN EnterUnregister(t, f) ELSE EnterRegister(t, f)
    /\ UNCHANGED <<now, steps, history, shared>>

\* apply_config: `return Err(error)`
ApplyFail(t) ==
    /\ pc[t] = "apply_config.fail"
    /\ ReturnFrom(t, [frame[t] EXCEPT !.previous_runtime = None, !.error = None,
                                      !.paused = FALSE],
                  Unwrap(frame[t].error))
    /\ UNCHANGED <<runtime, now, steps, history, shared, owner>>

\* load_config_from_file / _text: `apply_config(..)?`, then the hot reload
LoadAfterApply ==
    /\ pc["command"] = "load.after_apply"
    /\ IF Unwrap(frame["command"].result).tag = "Err"
       THEN ReturnFrom("command", Blank, Unwrap(frame["command"].result))
       ELSE Goto("command", "configure_config_hot_reload.lock_path",
                 [frame["command"] EXCEPT !.result = None])
    /\ UNCHANGED <<runtime, now, steps, history, shared, owner>>

\* configure_config_hot_reload: `*active_path = path.clone()`
ConfigureSetPath ==
    /\ pc["command"] = "configure_config_hot_reload.set_path"
    /\ active_config_path' = Unwrap(frame["command"].arg)
    /\ Release({"active_config_path"})
    /\ Goto("command", "configure_config_hot_reload.lock_watcher", frame["command"])
    /\ UNCHANGED <<runtime, now, steps, history, action_by_shortcut, action_by_gamepad,
                   hotkeys_paused, config_watcher>>

\* configure_config_hot_reload, holding the watcher slot: the old watcher is
\* dropped and, when there is a path, a new one is stored
ConfigureBody ==
    /\ pc["command"] = "configure_config_hot_reload.body"
    /\ config_watcher' = Unwrap(frame["command"].arg)
    /\ Release({"config_watcher"})
    /\ ReturnFrom("command", Blank, Ok(Unit))
    /\ UNCHANGED <<runtime, now, steps, history, action_by_shortcut, action_by_gamepad,
                   hotkeys_paused, active_config_path>>

\* The watcher reports a change of the file: reload_active_config
StartReload ==
    /\ CanStart("watcher")
    /\ IsSome(config_watcher)
    /\ Goto("watcher", "reload_active_config.lock_path", Blank)
    /\ UNCHANGED <<runtime, now, steps, history, shared, owner>>

\* reload_active_config discarding the schema in force before it compiles
\* the file
ReloadBody_ClearsFirst(doc) ==
    /\ pc["watcher"] = "reload_active_config.body"
    /\ Release({"active_config_path"})
    /\ runtime' = IF IsSome(active_config_path) THEN new ELSE runtime
    /\ LET config == load_config(doc) IN
       IF ~IsSome(active_config_path)
       THEN ReturnFrom("watcher", Blank, Ok(Unit))
       ELSE IF config.tag = "Err"
       THEN ReturnFrom("watcher", Blank, config)
       ELSE Goto("watcher", "apply_config.lock_runtime",
                 [Blank EXCEPT !.config = Some(config.value)])
    /\ UNCHANGED <<now, steps, history, shared>>

\* reload_active_config: the path is read, the document now in the file is
\* compiled, and `?` returns its error before apply_config is reached
ReloadBody(doc) ==
    /\ pc["watcher"] = "reload_active_config.body"
    /\ Release({"active_config_path"})
    /\ LET config == load_config(doc) IN
       IF ~IsSome(active_config_path)
       THEN ReturnFrom("watcher", Blank, Ok(Unit))
       ELSE IF config.tag = "Err"
       THEN ReturnFrom("watcher", Blank, config)
       ELSE Goto("watcher", "apply_config.lock_runtime",
                 [Blank EXCEPT !.config = Some(config.value)])
    /\ UNCHANGED <<runtime, now, steps, history, shared>>

ShellNext ==
    \/ \E t \in Threads : Acquire(t)
    \/ \E t \in {"command", "watcher"} : Finish(t)
    \/ \E t \in Threads : EmitBody(t)
    \/ TickSleep
    \/ TickBody
    \/ \E key \in KeyboardKeys : StartHandle("keyboard", key)
    \/ \E key \in GamepadButtons : StartHandle("gamepad", key)
    \/ \E t \in {"keyboard", "gamepad"} : HandleReadPaused(t)
    \/ \E t \in {"keyboard", "gamepad"} : HandleLookup(t)
    \/ \E t \in {"keyboard", "gamepad"} : HandleApply(t)
    \/ \E edit \in LabelEdits : StartUpdateLabel(edit)
    \/ UpdateLabelBody
    \/ \E paused \in BOOLEAN : StartSetPaused(paused)
    \/ SetPausedBody
    \/ \E t \in {"command", "watcher"} : UnregisterBody(t)
    \/ \E t \in {"command", "watcher"} : RegisterCollect(t)
    \/ \E t \in {"command", "watcher"} : RegisterBody(t)
    \/ \E doc \in Documents, path \in Paths : StartLoad(doc, path)
    \/ \E t \in {"command", "watcher"} : ApplyReplace(t)
    \/ \E t \in {"command", "watcher"} : ApplyReadPaused(t)
    \/ \E t \in {"command", "watcher"} : ApplyHotkeyResult(t)
    \/ \E t \in {"command", "watcher"} : ApplyRestore(t)
    \/ \E t \in {"command", "watcher"} : ApplyFail(t)
    \/ LoadAfterApply
    \/ ConfigureSetPath
    \/ ConfigureBody
    \/ StartReload
    \/ \E doc \in Documents : ReloadBody(doc)

\* The state after run() has built AppState and spawned its threads, with
\* the handlers of all threads interleaved, MaxInFlight of them at a time
ShellStart ==
    /\ runtime = new
    /\ now = 0
    /\ steps = 0
    /\ last = [op |-> "new"]
    /\ anchor = EmptyMap
    /\ ShellInit(MaxInFlight)

ShellSpec == ShellStart /\ [][ShellNext]_vars

\* The same with the handlers one at a time, each from its call to its return
SerialStart ==
    /\ runtime = new
    /\ now = 0
    /\ steps = 0
    /\ last = [op |-> "new"]
    /\ anchor = EmptyMap
    /\ ShellInit(1)

SerialSpec == SerialStart /\ [][ShellNext]_vars

----------------------------------------------------------------------------
(* The functions of the compiler and the formatter on their own: each is   *)
(* applied once to an input drawn from the sets below, and `last` keeps the *)
(* input with what came back.                                              *)

\* The fields before the first colon: plain, zero-padded, above a day, the last
\* whose milliseconds fit the i64 and the first whose do not, the largest i64
\* and the number after it, signed ones, an empty one, one that is no number
HourFields ==
    { <<"0">>,
      <<"0", "0">>,
      <<"0", "1">>,
      <<"2", "5">>,
      <<"5", "9", "6">>,
      <<"5", "9", "7">>,
      <<"2", "5", "6", "2", "0", "4", "7", "7", "8", "8", "0", "1", "5">>,
      <<"2", "5", "6", "2", "0", "4", "7", "7", "8", "8", "0", "1", "6">>,
      <<"5", "1", "2", "4", "0", "9", "5", "5", "7", "6", "0", "3", "0", "4", "3", "1">>,
      <<"9", "2", "2", "3", "3", "7", "2", "0", "3", "6", "8", "5", "4", "7", "7", "5", "8", "0", "7">>,
      <<"9", "2", "2", "3", "3", "7", "2", "0", "3", "6", "8", "5", "4", "7", "7", "5", "8", "0", "8">>,
      <<"-", "1">>,
      <<"-", "0">>,
      <<"+", "1">>,
      <<>>,
      <<"1", "a">> }

\* The fields between the colons
MinuteFields ==
    { <<"0", "0">>,
      <<"0", "2">>,
      <<"7">>,
      <<"5", "9">>,
      <<"6", "0">>,
      <<"6", "1">>,
      <<"-", "1">> }

\* The fields after the last colon
SecondFields ==
    { <<"0", "0">>,
      <<"0", "3">>,
      <<"1", "5">>,
      <<"5", "9">>,
      <<"6", "0">>,
      <<>> }

\* The defaults a timer may be given: three fields, and texts with two and
\* with four
TimerDefaults ==
    { join(<<h, m, s>>, ":") : h \in HourFields, m \in MinuteFields, s \in SecondFields }
        \cup { <<"0", "1", ":", "0", "2">>, <<"0", "1", ":", "0", "2", ":", "0", "3", ":", "0", "4">> }

\* The remaining times that are formatted, around the places where the
\* display changes its form: the tenth, the second, the minute, the hour, a
\* hundred hours
Milliseconds ==
    { 0, 49, 50, 99, 100, 949, 950, 999, 1000, 1049, 1050, 9949, 9950, 9999, 10000,
      59949, 59950, 59999, 60000, 60499, 60500, 61000, 61999, 119499, 119500,
      599499, 599500, 3599499, 3599500, 3599999, 3600000, 3600499, 3600500,
      3660000, 3661000, 3661499, 3661500, 35999000, 36000000, 359999000,
      360000000, 360000500 }

\* A label at (x, y), the rest of its table in order
LabelAt(id, x, y) ==
    RawComponent(TypeName("label"), Some(TomlString(chars(id))), Some([x |-> x, y |-> y]))

\* The x and the y just outside, on and just inside the edges of the canvas
EdgeXs == {-1, 0, CANVAS_WIDTH - 1, CANVAS_WIDTH}

EdgeYs == {-1, 0, CANVAS_HEIGHT - 1, CANVAS_HEIGHT}

\* Documents of two components in order, one of them at an edge position
PositionDocuments ==
    { Document(<<Entry("home", LabelAt("home", 10, 10)),
                 Entry("note", LabelAt("note", x, y))>>) : x \in EdgeXs, y \in EdgeYs }

\* Four component tables that compile: a timer, a counter, a label and an
\* image given by a relative path
Tables ==
    { Entry("clock", [RawComponent(TypeTable(Some("timer"), None,
                                             Some(<<"B", "a", "s", "k", "e", "t", "b", "a", "l", "l">>)),
                                   Some(TomlString(<<"0", "1", ":", "0", "2", ":", "0", "3">>)),
                                   Some([x |-> 320, y |-> 40]))
                         EXCEPT !.keybind = Some(Binds({"start", "stop"}))]),
      Entry("home", [RawComponent(TypeName("number"),
                                  Some(TomlInteger(parse_i64(<<"-", "1">>).value)),
                                  Some([x |-> 100, y |-> 200]))
                        EXCEPT !.keybind = Some(Binds({"increase", "decrease", "reset"}))]),
      Entry("Zone", LabelAt("Zone", 0, 0)),
      Entry("pic", [RawComponent(TypeName("image"), None, Some([x |-> 5, y |-> 5]))
                       EXCEPT !.source = Some(<<"pic.png">>),
                              !.size = Some([width |-> 64, height |-> 48])]) }

\* The duplicate-free sequences of up to n of the elements of S
RECURSIVE Arrangements(_, _)
Arrangements(S, n) ==
    IF n = 0 THEN { <<>> }
    ELSE LET shorter == Arrangements(S, n - 1)
         IN  shorter \cup { Append(t, e) : t \in shorter, e \in S }

\* The documents made of those tables, in every order; a document that names
\* a table twice is no TOML
OrderDocuments ==
    { Document(t) : t \in { a \in Arrangements(Tables, 3) : a # <<>> } }

\* Documents that fail for another reason than a position
FailingDocuments ==
    { [Document(<<Entry("home", LabelAt("home", 10, 10))>>) EXCEPT !.well_formed = FALSE],
      Document(<<Entry("home", LabelAt("home", 10, 10)), Entry("home", LabelAt("home", 20, 20))>>),
      Document(<<Entry(" ", LabelAt(" ", 10, 10))>>),
      Document(<<Entry("home", [LabelAt("home", 10, 10) EXCEPT !.component_type = TypeName("gauge")])>>),
      Document(<<Entry("home", [LabelAt("home", 10, 10) EXCEPT !.position = None])>>),
      Document(<<Entry("home", [LabelAt("home", 10, 10) EXCEPT
                                   !.font = Some(FontOverride(None, Some(0), None))])>>),
      [Document(<<Entry("home", LabelAt("home", 10, 10))>>) EXCEPT
          !.global = Some([background_color |-> Some("red"), font |-> None])],
      Document(<<Entry("clock", [RawComponent(TypeName("timer"),
                                              Some(TomlString(<<"0", "0", ":", "6", "0", ":", "0", "0">>)),
                                              Some([x |-> 1, y |-> 1]))
                                    EXCEPT !.keybind = Some(Binds({"start", "stop"}))])>>),
      Document(<<Entry("home", [RawComponent(TypeName("number"), Some(TomlInteger(to_i64(1))),
                                             Some([x |-> 1, y |-> 1]))
                                   EXCEPT !.keybind = Some(Binds({"increase", "reset"}))])>>) }

ConfigDocuments == PositionDocuments \cup OrderDocuments \cup FailingDocuments \cup Texts

FunctionStart ==
    /\ runtime = new
    /\ now = 0
    /\ steps = 0
    /\ last = [op |-> "new"]
    /\ anchor = EmptyMap
    /\ ShellInit(0)

\* config.rs parse_timer_default(value), in either build
ParseTimerDefault(value, overflow_checks) ==
    /\ last.op = "new"
    /\ last' = [op |-> "parse_timer_default", value |-> value,
                overflow_checks |-> overflow_checks,
                outcome |-> parse_timer_default(value, overflow_checks)]
    /\ UNCHANGED <<runtime, now, steps, anchor, appvars>>

\* state.rs format_ms(ms, rounding)
FormatMs(ms, rounding) ==
    /\ last.op = "new"
    /\ last' = [op |-> "format_ms", ms |-> ms, rounding |-> rounding,
                text |-> format_ms(ms, rounding)]
    /\ UNCHANGED <<runtime, now, steps, anchor, appvars>>

\* config.rs load_config_from_str(content), in either build
LoadConfigFromStr(content, overflow_checks) ==
    /\ last.op = "new"
    /\ last' = [op |-> "load_config_from_str", content |-> content,
                overflow_checks |-> overflow_checks,
                outcome |-> load_config_from_str(content, overflow_checks)]
    /\ UNCHANGED <<runtime, now, steps, anchor, appvars>>

\* Two counters that count up on the same gamepad button, and the second
\* also down on the chord the first is reset with
ConfigPads ==
    ScoreboardConfig("#000000",
        <<Bound(Number("away", 500, 200, 0),
                NumberKeybind(Some(Key(<<"Gamepad:", "S", "o", "u", "t", "h">>)), None,
                              Some(Key(<<"R">>)))),
          Bound(Number("home", 100, 200, 0),
                NumberKeybind(Some(Key(<<"Gamepad:", "S", "o", "u", "t", "h">>)),
                              Some(Key(<<"R">>)), None))>>)

\* The same with the keyboard chords apart: only the gamepad button is shared
ConfigPadsOnly ==
    ScoreboardConfig("#000000",
        <<Bound(Number("away", 500, 200, 0),
                NumberKeybind(Some(Key(<<"Gamepad:", "S", "o", "u", "t", "h">>)), None,
                              Some(Key(<<"R">>)))),
          Bound(Number("home", 100, 200, 0),
                NumberKeybind(Some(Key(<<"Gamepad:", "S", "o", "u", "t", "h">>)),
                              Some(Key(<<"D">>)), None))>>)

\* The schemas whose hotkeys are registered
HotkeySchemas ==
    {ConfigA, ConfigC, ConfigPads, ConfigPadsOnly, TakenDoc, Compiled[TextNumbers][TRUE].value}

\* Two bindings that are not gamepad ones have the same shortcut
RepeatsKeyboardShortcut(bindings) ==
    \E i, j \in 1..Len(bindings) :
        /\ i < j
        /\ bindings[i].shortcut = bindings[j].shortcut
        /\ ~(bindings[i].shortcut # <<>> /\ bindings[i].shortcut[1] = "Gamepad:")

\* lib.rs apply_config with no other thread running, up to the result of
\* register_hotkeys: replace_config, then unregister_hotkeys, collect_hotkeys
\* and the loop, and the two tables stored unless the loop failed. Whether
\* global_shortcut().register answers Err for a shortcut this loop has
\* registered already is the library's to say.
RegisterHotkeys(config, repeat_refused) ==
    /\ last.op = "new"
    /\ runtime' = replace_config(runtime, config)
    /\ LET bindings == collect_hotkeys(replace_config(runtime, config))
           result == IF repeat_refused /\ RepeatsKeyboardShortcut(bindings)
                     THEN Err("Failed to register")
                     ELSE register_loop(bindings, 1, EmptyMap, EmptyMap)
       IN  /\ action_by_shortcut' = IF result.tag = "Ok" THEN result.value.keyboard ELSE EmptyMap
           /\ action_by_gamepad' = IF result.tag = "Ok" THEN result.value.gamepad ELSE EmptyMap
           /\ last' = [op |-> "register_hotkeys", result |-> result.tag]
    /\ UNCHANGED <<now, steps, anchor, hotkeys_paused, active_config_path, config_watcher,
                   owner, pc, frame, in_flight_limit, emitted>>

FunctionNext ==
    \/ \E value \in TimerDefaults, overflow_checks \in BOOLEAN :
          ParseTimerDefault(value, overflow_checks)
    \/ \E ms \in Milliseconds, rounding \in {"Standard", "Basketball"} : FormatMs(ms, rounding)
    \/ \E content \in ConfigDocuments, overflow_checks \in BOOLEAN :
          LoadConfigFromStr(content, overflow_checks)
    \/ \E config \in HotkeySchemas, repeat_refused \in BOOLEAN :
          RegisterHotkeys(config, repeat_refused)

FunctionSpec == FunctionStart /\ [][FunctionNext]_vars

----------------------------------------------------------------------------

(* The engine with a timer at the top of the i64 *)

WideStart ==
    /\ runtime = new
    /\ now = 0
    /\ steps = 0
    /\ last = [op |-> "new"]
    /\ anchor = EmptyMap
    /\ ShellInit(0)

\* Within MaxTimerSeconds + 1 seconds of the largest i64
NearTop(x) == ~is_negative(x) /\ wrapping_add(x, (MaxTimerSeconds + 1) * 1000).overflow

\* The model counts near the top of the i64 and below 0, not in between
WithinBounds_i64(action) ==
    LET remaining_ms == runtime.timer_values[action.id].remaining_ms IN
    /\ action.tag = "TimerIncrease" => NearTop(remaining_ms)
    /\ action.tag = "TimerDecrease" => NearTop(remaining_ms) \/ ~positive(remaining_ms)

TimerActions ==
    [tag : {"TimerStart", "TimerStop", "TimerReset", "TimerIncrease", "TimerDecrease"},
     id : {"clock"}]

\* runtime.apply_action(&action) with a timer action, in either build
ApplyAction_i64(action) ==
    /\ action.id \in DOMAIN runtime.timer_values
    /\ WithinBounds_i64(action)
    /\ \E overflow_checks \in BOOLEAN :
          LET result == apply_action_i64(runtime, action, now, overflow_checks) IN
          /\ runtime' = SetTimer(runtime, action.id, result.timer)
          /\ last' = [op |-> IF result.panic THEN "overflow" ELSE action.tag,
                      changed |-> result.changed]
    /\ UNCHANGED <<now, steps, anchor, appvars>>

\* runtime.tick_timers(), in either build
Tick_i64 ==
    /\ \E overflow_checks \in BOOLEAN :
          LET ticked == [id \in DOMAIN runtime.timer_values |->
                            tick_one_i64(runtime.timer_values[id], now, overflow_checks)]
          IN  /\ runtime' = [runtime EXCEPT !.timer_values =
                                [id \in DOMAIN ticked |-> ticked[id].timer]]
              /\ last' = [op |-> IF \E id \in DOMAIN ticked : ticked[id].panic
                                 THEN "overflow" ELSE "tick_timers",
                          changed |-> \E id \in DOMAIN ticked : ticked[id].changed]
    /\ UNCHANGED <<now, steps, anchor, appvars>>

WideNext ==
    \/ \E d \in Deltas : Advance(d)
    \/ LoadConfigFromText(TextTop)
    \/ \E action \in TimerActions : ApplyAction_i64(action)
    \/ Tick_i64

WideSpec == WideStart /\ [][WideNext]_vars

----------------------------------------------------------------------------

(* The engine with two components of a kind *)

FrameStart ==
    /\ runtime = new
    /\ now = 0
    /\ steps = 0
    /\ last = [op |-> "new"]
    /\ anchor = EmptyMap
    /\ ShellInit(0)

FrameNext ==
    \/ \E d \in Deltas : Advance(d)
    \/ ReplaceConfig(ConfigC)
    \/ \E content \in {TextTimers, TextNumbers} : LoadConfigFromText(content)
    \/ \E action \in Actions : ApplyAction(action)
    \/ Tick

FrameSpec == FrameStart /\ [][FrameNext]_vars

----------------------------------------------------------------------------

(* The timers left to the 50 ms loop of spawn_timer_thread: the user makes *)
(* at most MaxOperations actions and loads, `steps` counting them, and the  *)
(* loop sleeps and ticks for ever.                                           *)

\* How many actions and loads the user makes
MaxOperations == 3

DriverStart ==
    /\ runtime = new
    /\ now = 0
    /\ steps = 0
    /\ last = [op |-> "new"]
    /\ anchor = EmptyMap
    /\ ShellInit(0)

\* Some Running timer has time left at the clock's reading. Once none has,
\* every later reading of the clock gives the engine the same results.
Pending(rt, t) ==
    \E id \in DOMAIN rt.timer_values :
        LET timer == rt.timer_values[id] IN
        /\ timer.running
        /\ as_millis(t - (IF IsSome(timer.last_tick) THEN Unwrap(timer.last_tick) ELSE t))
              < timer.remaining_ms

\* How long a thread::sleep(Duration::from_millis(50)) may take, in clock
\* units: 50 ms, or a second and a fraction of a millisecond
SleepDeltas ==
    {TICK_SLEEP_MS * InstantPerMs, 1000 * InstantPerMs + 1}

\* spawn_timer_thread: thread::sleep(50 ms), during which the clock moves
Sleep(d) ==
    /\ Pending(runtime, now)
    /\ now' = now + d
    /\ last' = [op |-> "sleep"]
    /\ UNCHANGED <<runtime, steps, anchor, appvars>>

\* The user loads a document: runtime.replace_config(config)
DriverLoad(content) ==
    /\ steps < MaxOperations
    /\ Compiled[content][TRUE].tag = "Ok"
    /\ runtime' = replace_config(runtime, Compiled[content][TRUE].value)
    /\ last' = [op |-> "load_config_from_text", result |-> "Ok"]
    /\ anchor' = [id \in DOMAIN runtime'.timer_values |-> None]
    /\ steps' = steps + 1
    /\ UNCHANGED <<now, appvars>>

\* The user triggers a timer action: runtime.apply_action(&action)
DriverAction(action) ==
    /\ steps < MaxOperations
    /\ WithinBounds(action)
    /\ LET result == apply_action(runtime, action, now) IN
       /\ runtime' = result.rt
       /\ last' = [op |-> action.tag, changed |-> result.changed]
       /\ anchor' = AnchorAfter(action, result)
    /\ steps' = steps + 1
    /\ UNCHANGED <<now, appvars>>

DriverActions ==
    [tag : {"TimerStart", "TimerStop", "TimerReset", "TimerIncrease", "TimerDecrease"},
     id : {"clock", "home"}]

DriverNext ==
    \/ \E d \in SleepDeltas : Sleep(d)
    \/ Tick
    \/ DriverLoad(TextTimers)
    \/ \E action \in DriverActions : DriverAction(action)

\* The loop of spawn_timer_thread never ends, and the clock never stops
DriverSpec ==
    /\ DriverStart
    /\ [][DriverNext]_vars
    /\ WF_vars(Tick)
    /\ WF_vars(\E d \in SleepDeltas : Sleep(d))

----------------------------------------------------------------------------

(* The shell with emit_snapshot in its two halves: the snapshot taken under *)
(* the runtime lock, and app.emit called with it once the lock is released. *)
(* The timer loop, the two trigger threads and the UI's commands run here.  *)

\* emit_snapshot, holding the runtime: `runtime.snapshot()`, and the guard
\* goes out of scope
EmitTake(t) ==
    /\ pc[t] = "emit_snapshot.body"
    /\ Release({"runtime"})
    /\ Goto(t, "emit_snapshot.emit", [frame[t] EXCEPT !.snapshot = Some(snapshot(runtime))])
    /\ UNCHANGED <<runtime, now, steps, history, shared>>

\* emit_snapshot: `app.emit(EVENT_STATE_UPDATED, snapshot)`; the renderer
\* shows the payload of the event it got last
EmitSend(t) ==
    /\ pc[t] = "emit_snapshot.emit"
    /\ emitted' = frame[t].snapshot
    /\ ReturnFrom(t, [frame[t] EXCEPT !.snapshot = None], Ok(Unit))
    /\ UNCHANGED <<runtime, now, steps, last, anchor, in_flight_limit, shared, owner>>

EmitNext ==
    \/ \E t \in Threads : Acquire(t)
    \/ Finish("command")
    \/ \E t \in Threads : EmitTake(t)
    \/ \E t \in Threads : EmitSend(t)
    \/ TickSleep
    \/ TickBody
    \/ \E key \in KeyboardKeys : StartHandle("keyboard", key)
    \/ \E key \in GamepadButtons : StartHandle("gamepad", key)
    \/ \E t \in {"keyboard", "gamepad"} : HandleReadPaused(t)
    \/ \E t \in {"keyboard", "gamepad"} : HandleLookup(t)
    \/ \E t \in {"keyboard", "gamepad"} : HandleApply(t)
    \/ \E edit \in LabelEdits : StartUpdateLabel(edit)
    \/ UpdateLabelBody
    \/ UnregisterBody("command")
    \/ RegisterCollect("command")
    \/ RegisterBody("command")
    \/ \E doc \in Documents, path \in Paths : StartLoad(doc, path)
    \/ ApplyReplace("command")
    \/ ApplyReadPaused("command")
    \/ ApplyHotkeyResult("command")
    \/ ApplyRestore("command")
    \/ ApplyFail("command")
    \/ LoadAfterApply
    \/ ConfigureSetPath
    \/ ConfigureBody

\* The state after run() has built AppState and spawned its threads, with
\* the handlers one at a time or MaxInFlight of them at a time
EmitStart ==
    /\ runtime = new
    /\ now = 0
    /\ steps = 0
    /\ last = [op |-> "new"]
    /\ anchor = EmptyMap
    /\ \E limit \in {1, MaxInFlight} : ShellInit(limit)

EmitSpec == EmitStart /\ [][EmitNext]_vars

----------------------------------------------------------------------------

(* Properties *)

Timers == DOMAIN runtime.timer_values

\* Whole milliseconds between the timer's last tick and now
ElapsedMs(timer) == as_millis(now - Unwrap(timer.last_tick))

Act(tag, id) == [tag |-> tag, id |-> id]

\* C1: TimerStart on a Stopped timer with remaining_ms > 0 returns true and
\* leaves it Running, anchored at now, with remaining_ms as it was; on a
\* Running timer, a timer at 0 or an id with no timer it returns false and
\* changes nothing.
C1_TimerStart ==
    \A id \in Ids :
        LET r == apply_action(runtime, Act("TimerStart", id), now) IN
        IF /\ id \in Timers
           /\ ~runtime.timer_values[id].running
           /\ runtime.timer_values[id].remaining_ms > 0
        THEN /\ r.changed
             /\ r.rt = [runtime EXCEPT !.timer_values[id] =
                          TimerRuntime(runtime.timer_values[id].remaining_ms, TRUE, Some(now))]
        ELSE /\ ~r.changed
             /\ r.rt = runtime

\* A Start has just put a timer in Running, after the clock had moved
C1_Witness ==
    /\ last.op = "TimerStart" /\ last.changed
    /\ now > 0
    /\ \E id \in Timers :
          /\ runtime.timer_values[id].running
          /\ runtime.timer_values[id].last_tick = Some(now)

\* C2: after a tick, or after the Stop that stopped it, a timer anchored by
\* an action at t0 with R milliseconds left shows max(0, R - (now - t0)),
\* however many ticks came in between.
C2_NoDrift ==
    \A id \in DOMAIN anchor :
        /\ IsSome(anchor[id])
        /\ id \in Timers
        /\ \/ last.op = "tick_timers"
           \/ last.op = "TimerStop" /\ last.changed /\ ~runtime.timer_values[id].running
        => runtime.timer_values[id].remaining_ms =
              Max(0, Unwrap(anchor[id]).R - as_millis(now - Unwrap(anchor[id]).t0))

\* C3: a tick when at least remaining_ms milliseconds have passed since a
\* Running timer's last tick stops it at 0 with no anchor and returns true;
\* a tick when no timer is Running returns false and changes nothing.
C3_TickExpires ==
    LET r == tick_timers(runtime, now) IN
    /\ \A id \in Timers :
          runtime.timer_values[id].running
            /\ ElapsedMs(runtime.timer_values[id]) >= runtime.timer_values[id].remaining_ms
          => /\ r.changed
             /\ r.rt.timer_values[id] = TimerRuntime(0, FALSE, None)
    /\ ~AnyRunning(runtime) => ~r.changed /\ r.rt = runtime

\* A tick has just stopped a timer at zero
C3_Witness ==
    /\ last.op = "tick_timers" /\ last.changed
    /\ \E id \in Timers : runtime.timer_values[id] = TimerRuntime(0, FALSE, None)
    /\ ~AnyRunning(runtime)

\* C4: TimerStop on a Running timer leaves max(0, remaining_ms - elapsed),
\* Stopped, no anchor, and returns true; on a Stopped timer (or an id with
\* no timer) it returns false and changes nothing.
C4_TimerStop ==
    \A id \in Ids :
        LET r == apply_action(runtime, Act("TimerStop", id), now) IN
        IF id \in Timers /\ runtime.timer_values[id].running
        THEN /\ r.changed
             /\ r.rt = [runtime EXCEPT !.timer_values[id] =
                          TimerRuntime(Max(0, @.remaining_ms - ElapsedMs(@)), FALSE, None)]
        ELSE /\ ~r.changed
             /\ r.rt = runtime

\* A Stop has just stopped a timer part of the way through a second
C4_Witness ==
    /\ last.op = "TimerStop" /\ last.changed
    /\ \E id \in Timers :
          /\ ~runtime.timer_values[id].running
          /\ runtime.timer_values[id].remaining_ms % 1000 # 0

\* The configured default of the timer component with this id
DefaultMs(id) == Unwrap(FindComponent(Unwrap(runtime.config), id, "Timer")).default_ms

\* C5: TimerReset sets remaining_ms to the default; a timer that was Running
\* is Running afterwards, anchored at now, when the default is > 0, whatever
\* time had passed since its last tick, and Stopped when the default is 0; a
\* Stopped timer stays Stopped.
C5_TimerReset ==
    \A id \in Timers :
        LET timer == runtime.timer_values[id]
            post == apply_action(runtime, Act("TimerReset", id), now).rt.timer_values[id]
        IN  /\ post.remaining_ms = DefaultMs(id)
            /\ timer.running /\ DefaultMs(id) > 0
                  => post.running /\ post.last_tick = Some(now)
            /\ timer.running /\ DefaultMs(id) = 0 => ~post.running
            /\ ~timer.running => ~post.running

\* C6: TimerIncrease on a Running timer leaves max(0, remaining_ms - elapsed)
\* + 1000, Running, anchored at now; on a Stopped timer it adds 1000 and
\* leaves it Stopped.
C6_TimerIncrease ==
    \A id \in Timers :
        LET timer == runtime.timer_values[id]
            post == apply_action(runtime, Act("TimerIncrease", id), now).rt.timer_values[id]
        IN  IF timer.running
            THEN post = TimerRuntime(Max(0, timer.remaining_ms - ElapsedMs(timer)) + 1000,
                                     TRUE, Some(now))
            ELSE post = TimerRuntime(timer.remaining_ms + 1000, FALSE, timer.last_tick)

\* C7: TimerDecrease leaves max(0, r' - 1000), r' being max(0, r - elapsed)
\* for a Running timer and r for a Stopped one; a Running timer stays
\* Running, anchored at now, exactly when the result is > 0, and is Stopped
\* with no anchor otherwise; a Stopped timer stays Stopped.
C7_TimerDecrease ==
    \A id \in Timers :
        LET timer == runtime.timer_values[id]
            post == apply_action(runtime, Act("TimerDecrease", id), now).rt.timer_values[id]
            synced == IF timer.running
                      THEN Max(0, timer.remaining_ms - ElapsedMs(timer))
                      ELSE timer.remaining_ms
            result == Max(0, synced - 1000)
        IN  /\ post.remaining_ms = result
            /\ timer.running /\ result > 0 => post.running /\ post.last_tick = Some(now)
            /\ timer.running /\ result = 0 => ~post.running /\ post.last_tick = None
            /\ ~timer.running => ~post.running /\ post.last_tick = None

\* A Decrease has just left a timer Running part of the way through a second
C7_Witness ==
    /\ last.op = "TimerDecrease" /\ last.changed
    /\ \E id \in Timers :
          /\ runtime.timer_values[id].running
          /\ runtime.timer_values[id].last_tick = Some(now)
          /\ runtime.timer_values[id].remaining_ms % 1000 # 0

\* C8: NumberDecrease on a counter at 0 leaves it at 0 and returns false.
C8_DecreaseAtZero ==
    \A id \in DOMAIN runtime.number_values :
        runtime.number_values[id] = 0
        => LET r == apply_action(runtime, Act("NumberDecrease", id), now) IN
           /\ r.rt.number_values[id] = 0
           /\ ~r.changed

\* The stored runtime value an action targets, if there is one
Stored(rt, action) ==
    LET m == CASE action.tag \in {"NumberIncrease", "NumberDecrease", "NumberReset"} ->
                    rt.number_values
               [] action.tag \in {"ImageToggleForward", "ImageToggleBackward"} ->
                    rt.image_toggle_indices
               [] OTHER -> rt.timer_values
    IN  IF action.id \in DOMAIN m THEN Some(m[action.id]) ELSE None

\* C9: apply_action returns true only if the targeted component's stored
\* value differs after the call.
C9_ChangedMeansDifferent ==
    \A action \in Actions :
        LET r == apply_action(runtime, action, now) IN
        r.changed => Stored(r.rt, action) # Stored(runtime, action)

\* The components of a kind
CompsOf(config, kind) ==
    {config.components[i] : i \in {j \in 1..Len(config.components) :
                                       config.components[j].kind = kind}}

IdsOf(config, kind) == {c.id : c \in CompsOf(config, kind)}

\* The component of a kind with this id (ids are unique in a schema)
The(config, kind, id) == CHOOSE c \in CompsOf(config, kind) : c.id = id

\* What the renderer is to show for a component at its default
DefaultDisplay(c) ==
    [id |-> c.id,
     component_type |->
        CASE c.kind = "Number" -> "number" [] c.kind = "Timer" -> "timer"
          [] c.kind = "Label" -> "label" [] c.kind = "Image" -> "image"
          [] c.kind = "ImageToggle" -> "image-toggle",
     x |-> c.position.x, y |-> c.position.y,
     text |->
        CASE c.kind = "Number" -> Some(to_string(c.default))
          [] c.kind = "Timer" -> Some(format_ms(c.default_ms, c.rounding))
          [] c.kind = "Label" -> Some(c.default)
          [] OTHER -> None,
     source |->
        CASE c.kind = "Image" -> Some(c.source)
          [] c.kind = "ImageToggle" -> Some(c.sources[1])
          [] OTHER -> None,
     editable |-> c.kind = "Label" /\ c.edit]

\* C10: right after replace_config the runtime holds exactly the new
\* schema's defaults, and snapshot() shows them and nothing else.
C10_ReplaceConfig ==
    last.op = "replace_config"
    => /\ IsSome(runtime.config)
       /\ Unwrap(runtime.config) \in Schemas
       /\ LET config == Unwrap(runtime.config) IN
          /\ runtime.number_values =
                [id \in IdsOf(config, "Number") |-> The(config, "Number", id).default]
          /\ runtime.timer_values =
                [id \in IdsOf(config, "Timer") |->
                    TimerRuntime(The(config, "Timer", id).default_ms, FALSE, None)]
          /\ runtime.label_values =
                [id \in IdsOf(config, "Label") |-> The(config, "Label", id).default]
          /\ runtime.image_toggle_indices =
                [id \in IdsOf(config, "ImageToggle") |-> 0]
          /\ ~snapshot_panics(runtime)
          /\ snapshot(runtime) =
                [background_color |-> config.global.background_color,
                 components |-> [i \in 1..Len(config.components) |->
                                    DefaultDisplay(config.components[i])]]

\* A schema with a timer has just replaced one whose timer was Running
C10_Witness ==
    /\ last.op = "replace_config" /\ last.was_running
    /\ now > 0
    /\ \E id \in Timers : ~runtime.timer_values[id].running

\* The text has a line feed or a carriage return
MultiLine(value) == Contains(value, "\n") \/ Contains(value, "\r")

\* The schema in force, and whether id names one of its editable labels
Editable(id) ==
    /\ IsSome(runtime.config)
    /\ id \in IdsOf(Unwrap(runtime.config), "Label")
    /\ The(Unwrap(runtime.config), "Label", id).edit

\* C15: set_label_value with a text that has a line feed or a carriage
\* return returns an error and changes nothing, whatever id it is given:
\* an editable label, a label that is not editable, a component of another
\* kind, an id of no component, or any id while no config is loaded.
C15_MultiLineRejected ==
    \A id \in Ids, value \in LabelInputs :
        MultiLine(value)
        => LET r == set_label_value(runtime, id, value) IN
           /\ r.result.tag = "Err"
           /\ r.rt = runtime

\* A multi-line text was just refused while the schema had an editable label
C15_Witness ==
    /\ last.op = "set_label_value"
    /\ last.result = Err("Label text must be a single-line string")
    /\ \E id \in Ids : Editable(id)

\* C16: for a single-line text, set_label_value returns an error and changes
\* nothing when the id is unknown, names a component that is not a label, or
\* names a label whose edit flag is false; on an editable label it returns
\* Ok(false) and changes nothing when the text is the current one, and
\* otherwise stores the text under that id only and returns Ok(true).
C16_SetLabelValue ==
    \A id \in Ids, value \in LabelInputs :
        ~MultiLine(value)
        => LET r == set_label_value(runtime, id, value) IN
           IF ~Editable(id)
           THEN r.result.tag = "Err" /\ r.rt = runtime
           ELSE IF value = runtime.label_values[id]
           THEN r.result = Ok(FALSE) /\ r.rt = runtime
           ELSE /\ r.result = Ok(TRUE)
                /\ r.rt = [runtime EXCEPT !.label_values[id] = value]

\* An editable label was just given a new text
C16_Witness ==
    /\ last.op = "set_label_value"
    /\ last.result = Ok(TRUE)
    /\ Editable("home")
    /\ runtime.label_values["home"] = <<"Y">>

\* An image toggle that has no source at all, which the engine still defends
ZeroSources == ScoreboardConfig("#000000", <<ImageToggle("logo", 0, 0, <<>>)>>)

\* C17: with n >= 1 sources and index i, ImageToggleForward sets the index to
\* (i + 1) mod n and ImageToggleBackward to (i + n - 1) mod n and neither
\* touches anything else, so Forward from n-1 gives 0, Backward from 0 gives
\* n-1, and one after the other, in either order, restores the state; with
\* no source both return false and change nothing.
C17_ImageToggle ==
    /\ \A id \in Ids :
          IsSome(runtime.config) /\ id \in IdsOf(Unwrap(runtime.config), "ImageToggle")
          => LET n == Len(The(Unwrap(runtime.config), "ImageToggle", id).sources)
                 i == runtime.image_toggle_indices[id]
                 f == ImageToggleForward(runtime, id)
                 b == ImageToggleBackward(runtime, id)
             IN  /\ n >= 1 /\ i \in 0..(n - 1)
                 /\ f.rt = [runtime EXCEPT !.image_toggle_indices[id] = (i + 1) % n]
                 /\ b.rt = [runtime EXCEPT !.image_toggle_indices[id] = (i + n - 1) % n]
                 /\ i = n - 1 => f.rt.image_toggle_indices[id] = 0
                 /\ i = 0 => b.rt.image_toggle_indices[id] = n - 1
                 /\ ImageToggleBackward(f.rt, id).rt = runtime
                 /\ ImageToggleForward(b.rt, id).rt = runtime
    /\ LET rt == replace_config(runtime, ZeroSources) IN
          /\ ImageToggleForward(rt, "logo") = Unchanged(rt)
          /\ ImageToggleBackward(rt, "logo") = Unchanged(rt)

\* Forward has just wrapped a toggle of three sources from the last to the first
C17_Witness ==
    /\ last.op = "ImageToggleForward" /\ last.changed
    /\ runtime.config = Some(ConfigC)
    /\ runtime.image_toggle_indices["logo"] = 0

\* What the snapshot shows for a timer: remaining_ms under its rounding mode
TimerText(rt, id) ==
    format_ms(rt.timer_values[id].remaining_ms,
              The(Unwrap(rt.config), "Timer", id).rounding)

\* C18: tick_timers returns true exactly when the displayed text of at least
\* one timer differs after the tick from before it.
C18_TickReportsDisplay ==
    LET r == tick_timers(runtime, now) IN
    r.changed <=> \E id \in Timers : TimerText(r.rt, id) # TimerText(runtime, id)

\* The half of C18 the code keeps: a tick that changes a displayed text
\* returns true.
C18_DisplayChangeReported ==
    LET r == tick_timers(runtime, now) IN
    (\E id \in Timers : TimerText(r.rt, id) # TimerText(runtime, id)) => r.changed

ChordsOf(kind) ==
    CASE kind = "Number" ->
            {<<"increase", "NumberIncrease">>, <<"decrease", "NumberDecrease">>,
             <<"reset", "NumberReset">>}
      [] kind = "Timer" ->
            {<<"start", "TimerStart">>, <<"stop", "TimerStop">>, <<"reset", "TimerReset">>,
             <<"increase", "TimerIncrease">>, <<"decrease", "TimerDecrease">>}
      [] kind = "ImageToggle" ->
            {<<"forward", "ImageToggleForward">>, <<"backward", "ImageToggleBackward">>}
      [] OTHER -> {}

\* The (component, chord) pairs of the schema whose key-chord is present
PresentChords(config) ==
    {<<i, ch>> \in (1..Len(config.components)) \X UNION {ChordsOf(k) : k \in {"Number", "Timer", "ImageToggle"}} :
        LET c == config.components[i] IN
        /\ ch \in ChordsOf(c.kind)
        /\ IsSome(c.keybind)
        /\ IsSome(Unwrap(c.keybind)[ch[1]])}

\* C20: collect_hotkeys returns exactly one (shortcut, Action) pair for each
\* action of each component of the schema whose key-chord is present, the
\* Action carrying that component's id, and nothing else; it is the same
\* after any apply_action, tick_timers or set_label_value, and it is empty
\* when no config is loaded.
C20_CollectHotkeys ==
    LET h == collect_hotkeys(runtime) IN
    /\ ~IsSome(runtime.config) => h = <<>>
    /\ IsSome(runtime.config)
       => LET config == Unwrap(runtime.config)
              present == PresentChords(config)
          IN  /\ Len(h) = Cardinality(present)
              /\ {h[n] : n \in 1..Len(h)} =
                    {HotkeyBinding(to_shortcut(Unwrap(Unwrap(config.components[p[1]].keybind)[p[2][1]])),
                                   p[2][2], config.components[p[1]].id) : p \in present}
    /\ \A action \in Actions : collect_hotkeys(apply_action(runtime, action, now).rt) = h
    /\ collect_hotkeys(tick_timers(runtime, now).rt) = h
    /\ \A id \in Ids, value \in LabelInputs :
          collect_hotkeys(set_label_value(runtime, id, value).rt) = h

\* An action has just changed the runtime of a schema with six key-chord
\* bindings, two of them on one component with a chord left out
C20_Witness ==
    /\ last.op = "TimerStart" /\ last.changed
    /\ runtime.config = Some(ConfigA)
    /\ Len(collect_hotkeys(runtime)) = 6
    /\ collect_hotkeys(runtime)[1] =
          HotkeyBinding(<<"Ctrl", "+", "F", "1">>, "TimerStart", "clock")

\* The two action tables
tables == <<action_by_shortcut, action_by_gamepad>>

\* The thread takes a step of a load that ends in a compile error: the
\* command's only step, or one of the watcher callback's up to its return
FailedLoadStep(t) ==
    /\ pc'[t] # pc[t]
    /\ \/ pc'[t] \in {"reload_active_config.lock_path", "reload_active_config.body"}
       \/ /\ pc'[t] = Returning
          /\ frame'[t].result = Some(Err("TOML parse error"))

\* C11: a load or a hot reload whose document does not compile leaves the
\* RuntimeState (schema and every value, Running timers included) and the
\* keyboard and gamepad action tables exactly as they were.
C11_CompileFailure ==
    [][\A t \in {"command", "watcher"} :
          FailedLoadStep(t) => runtime' = runtime /\ tables' = tables]_vars

\* A hot reload has just failed to compile while a timer was Running and its
\* triggers were registered
C11_Witness ==
    /\ pc["watcher"] = Returning
    /\ frame["watcher"].result = Some(Err("TOML parse error"))
    /\ AnyRunning(runtime)
    /\ action_by_shortcut # EmptyMap /\ action_by_gamepad # EmptyMap

\* The table that holds, for every binding of the schema that is (or is not)
\* a gamepad one, its action under its key
TableOf(rt, gamepad) ==
    LET bindings == collect_hotkeys(rt)
        chosen == {i \in 1..Len(bindings) :
                      (bindings[i].shortcut[1] = "Gamepad:") = gamepad}
        KeyOf(i) == IF gamepad THEN Tail(bindings[i].shortcut) ELSE bindings[i].shortcut
    IN  [key \in {KeyOf(i) : i \in chosen} |->
            bindings[CHOOSE i \in chosen : KeyOf(i) = key /\ \A j \in chosen : KeyOf(j) = key => j <= i].action]

\* C12: when hotkey registration fails inside apply_config, then at the
\* moment apply_config returns its error the RuntimeState is the one that was
\* active before the call and the two action tables are the ones derived
\* from that schema.
C12_RollbackAgrees ==
    \A t \in {"command", "watcher"} :
        pc[t] = "apply_config.fail"
        => /\ runtime = Unwrap(frame[t].previous_runtime)
           /\ action_by_shortcut = TableOf(runtime, FALSE)
           /\ action_by_gamepad = TableOf(runtime, TRUE)

\* The half of C12 the code keeps when no other handler runs meanwhile: the
\* RuntimeState is the one that was active before the call.
C12_RuntimeRestored ==
    \A t \in {"command", "watcher"} :
        pc[t] = "apply_config.fail" => runtime = Unwrap(frame[t].previous_runtime)

\* The positions at which a thread is inside an operation on RuntimeState
RuntimeOperations ==
    {"tick.body", "handle.apply", "update_label_text.body", "apply_config.replace",
     "apply_config.restore", "register_hotkeys.collect", "emit_snapshot.body"}

\* Every runtime value belongs to a component of that kind of the schema in
\* force and every such component has one, so that snapshot() reads each
\* component's own value and never its `unwrap_or` fallback
MatchesSchema(rt) ==
    IF ~IsSome(rt.config)
    THEN /\ rt.number_values = EmptyMap /\ rt.timer_values = EmptyMap
         /\ rt.label_values = EmptyMap /\ rt.image_toggle_indices = EmptyMap
    ELSE LET config == Unwrap(rt.config) IN
         /\ DOMAIN rt.number_values = IdsOf(config, "Number")
         /\ DOMAIN rt.timer_values = IdsOf(config, "Timer")
         /\ DOMAIN rt.label_values = IdsOf(config, "Label")
         /\ DOMAIN rt.image_toggle_indices = IdsOf(config, "ImageToggle")
         /\ \A id \in IdsOf(config, "ImageToggle") :
               rt.image_toggle_indices[id] < Len(The(config, "ImageToggle", id).sources)

\* C13: in every interleaving, a thread that is inside apply_action,
\* tick_timers, set_label_value, replace_config, the rollback, collect_hotkeys
\* or snapshot holds the runtime mutex, each of them being one step, and the
\* RuntimeState any of them finds pairs a schema with values of that schema
\* alone.
C13_AtomicOperations ==
    /\ \A t \in Threads : pc[t] \in RuntimeOperations => owner["runtime"] = t
    /\ MatchesSchema(runtime)

\* The timer thread is taking a snapshot while a load that has replaced the
\* schema with another one is still registering its hotkeys
C13_Witness ==
    /\ pc["tick"] = "emit_snapshot.body"
    /\ pc["command"] \in {"register_hotkeys.lock_runtime", "register_hotkeys.lock_shortcut"}
    /\ IsSome(frame["command"].previous_runtime)
    /\ Unwrap(frame["command"].previous_runtime).config # runtime.config
    /\ IsSome(runtime.config)

\* The mutexes a thread holds, and the one it is about to lock
Held(t) == {m \in Mutexes : owner[m] = t}

Wanted(t) == {e[2] : e \in {x \in Locks : x[1] = pc[t]}}

\* The thread that holds the mutex this one is waiting for
Blocker(t) ==
    IF \E m \in Wanted(t) : owner[m] \notin {Free, t}
    THEN owner[CHOOSE m \in Wanted(t) : owner[m] \notin {Free, t}]
    ELSE "nobody"

\* u is reached from t by following at most n blockers
RECURSIVE Reaches(_, _, _)
Reaches(t, u, n) ==
    /\ n > 0
    /\ Blocker(t) # "nobody"
    /\ (Blocker(t) = u \/ Reaches(Blocker(t), u, n - 1))

\* The only mutex locked while another is held, and the one held
LockOrder == {<<"action_by_shortcut", "action_by_gamepad">>}

\* C14: in every interleaving no thread locks a mutex it already holds (the
\* runtime mutex in particular), a mutex is locked while another is held
\* only in the order action_by_shortcut, action_by_gamepad, and no threads
\* wait for each other in a cycle.
C14_NoDeadlock ==
    /\ \A t \in Threads : Wanted(t) \cap Held(t) = {}
    /\ \A t \in Threads : \A h \in Held(t), m \in Wanted(t) : <<h, m>> \in LockOrder
    /\ \A t \in Threads : ~Reaches(t, t, Cardinality(Threads))

\* A thread that holds action_by_shortcut waits for action_by_gamepad, which
\* another thread holds
C14_Witness ==
    \E t \in Threads :
        /\ Held(t) = {"action_by_shortcut"}
        /\ Wanted(t) = {"action_by_gamepad"}
        /\ Blocker(t) # "nobody"

----------------------------------------------------------------------------
(* The counters, the labels and the timers at the limits of what a         *)
(* document can set                                                         *)

\* v + 1 as an integer, in the 64 bits that hold it for every i32 v
PlusOne(v) == mul_add_from(to_i64(v), 1, 1, 1).value

\* C21: NumberIncrease on a counter that holds v leaves it holding v + 1,
\* whatever v the counter has reached: the operation does not fail, and the
\* value neither stops nor wraps around.
C21_IncreaseAddsOne ==
    \A id \in DOMAIN runtime.number_values :
        /\ ~apply_action_overflows(runtime, Act("NumberIncrease", id))
        /\ to_i64(apply_action(runtime, Act("NumberIncrease", id), now).rt.number_values[id])
              = PlusOne(runtime.number_values[id])

\* C21, below the top of the i32: the same for every v < i32::MAX
C21_IncreaseBelowMax ==
    \A id \in DOMAIN runtime.number_values :
        runtime.number_values[id] # I32_MAX
        => /\ ~apply_action_overflows(runtime, Act("NumberIncrease", id))
           /\ to_i64(apply_action(runtime, Act("NumberIncrease", id), now).rt.number_values[id])
                 = PlusOne(runtime.number_values[id])

\* C22: in every reachable state the text of every label, be it the default
\* a load gave it or a value set_label_value stored, is a single line: it
\* holds no line feed and no carriage return.
C22_LabelsSingleLine ==
    /\ \A id \in DOMAIN runtime.label_values : ~MultiLine(runtime.label_values[id])
    /\ IsSome(runtime.config)
          => \A i \in 1..Len(Unwrap(runtime.config).components) :
                Unwrap(runtime.config).components[i].kind = "Label"
                => ~MultiLine(Unwrap(runtime.config).components[i].default)

\* C22 for what set_label_value stores: a label whose text has several lines
\* has them from its default
C22_StoredSingleLine ==
    \A id \in DOMAIN runtime.label_values :
        MultiLine(runtime.label_values[id])
        => runtime.label_values[id] = The(Unwrap(runtime.config), "Label", id).default


(* Timer defaults, against exact arithmetic *)

\* A natural number of any size: its limbs, lowest first, the highest not 0
RECURSIVE NatMulAdd(_, _, _)
NatMulAdd(n, k, c) ==
    IF n = <<>>
    THEN IF c = 0 THEN <<>> ELSE <<c % LIMB>> \o NatMulAdd(<<>>, k, c \div LIMB)
    ELSE With(n[1] * k + c, LAMBDA t :
         With(Tail(n), LAMBDA rest : <<t % LIMB>> \o NatMulAdd(rest, k, t \div LIMB)))

\* The natural number that a text of digits writes
RECURSIVE NatOfDigits(_, _, _)
NatOfDigits(digits, i, acc) ==
    IF i > Len(digits) THEN acc
    ELSE With(NatMulAdd(acc, 10, DigitValue(digits[i])), LAMBDA next :
              NatOfDigits(digits, i + 1, next))

\* The limbs of a non-negative i64 without its high zeros
RECURSIVE WithoutHighZeros(_)
WithoutHighZeros(x) ==
    IF x # <<>> /\ x[Len(x)] = 0 THEN WithoutHighZeros(SubSeq(x, 1, Len(x) - 1)) ELSE x

\* A numeric field: digits, after a sign or not
Signed(field) == field # <<>> /\ field[1] \in {"+", "-"}

FieldDigits(field) == IF Signed(field) THEN Tail(field) ELSE field

Numeric(field) ==
    /\ FieldDigits(field) # <<>>
    /\ \A i \in 1..Len(FieldDigits(field)) : IsDigit(FieldDigits(field)[i])

Magnitude(field) == NatOfDigits(FieldDigits(field), 1, <<>>)

AtLeastZero(field) == field[1] # "-" \/ Magnitude(field) = <<>>

Below60(field) ==
    /\ AtLeastZero(field)
    /\ Magnitude(field) = <<>> \/ (Len(Magnitude(field)) = 1 /\ Magnitude(field)[1] < 60)

\* The fields of h:m:s with h >= 0, 0 <= m < 60 and 0 <= s < 60
WellFormedDefault(value) ==
    LET parts == split(value, ":") IN
    /\ Len(parts) = 3
    /\ \A i \in 1..3 : Numeric(parts[i])
    /\ AtLeastZero(parts[1])
    /\ Below60(parts[2])
    /\ Below60(parts[3])

\* ((h*3600)+(m*60)+s)*1000, exactly
ExactMilliseconds(value) ==
    LET parts == split(value, ":")
        m == IF Magnitude(parts[2]) = <<>> THEN 0 ELSE Magnitude(parts[2])[1]
        s == IF Magnitude(parts[3]) = <<>> THEN 0 ELSE Magnitude(parts[3])[1]
    IN  NatMulAdd(NatMulAdd(NatMulAdd(Magnitude(parts[1]), 3600, m * 60), 1, s), 1000, 0)

\* The largest i64, 2^63 - 1
I64_MAX == <<LIMB - 1, LIMB - 1, LIMB - 1, LIMB \div 2 - 1>>

\* a <= I64_MAX for a natural number a
FitsI64(a) == Len(a) < 4 \/ (Len(a) = 4 /\ a[4] < LIMB \div 2)

\* C23: parse_timer_default accepts exactly the texts of three numeric
\* fields h:m:s with h >= 0, 0 <= m < 60 and 0 <= s < 60, and returns
\* ((h*3600)+(m*60)+s)*1000 for every such h, however large; 01:02:03 gives
\* 3723000, 00:60:00 fails and 25:00:00 succeeds.
C23_ParseTimerDefault ==
    last.op = "parse_timer_default" =>
        /\ IF WellFormedDefault(last.value)
           THEN /\ last.outcome.tag = "Ok"
                /\ ~is_negative(last.outcome.value)
                /\ WithoutHighZeros(last.outcome.value) = ExactMilliseconds(last.value)
           ELSE last.outcome.tag = "Err"
        /\ last.value = <<"0", "1", ":", "0", "2", ":", "0", "3">>
              => last.outcome = Ok(to_i64(3723000))
        /\ last.value = <<"0", "0", ":", "6", "0", ":", "0", "0">> => last.outcome.tag = "Err"
        /\ last.value = <<"2", "5", ":", "0", "0", ":", "0", "0">> => last.outcome.tag = "Ok"

\* What holds of parse_timer_default: the same, for the well-formed texts
\* whose milliseconds an i64 holds
C23_WithinI64 ==
    last.op = "parse_timer_default" =>
        /\ IF WellFormedDefault(last.value)
           THEN FitsI64(ExactMilliseconds(last.value)) =>
                   /\ last.outcome.tag = "Ok"
                   /\ ~is_negative(last.outcome.value)
                   /\ WithoutHighZeros(last.outcome.value) = ExactMilliseconds(last.value)
           ELSE last.outcome.tag = "Err"
        /\ last.value = <<"0", "1", ":", "0", "2", ":", "0", "3">>
              => last.outcome = Ok(to_i64(3723000))
        /\ last.value = <<"0", "0", ":", "6", "0", ":", "0", "0">> => last.outcome.tag = "Err"
        /\ last.value = <<"2", "5", ":", "0", "0", ":", "0", "0">> => last.outcome.tag = "Ok"

\* The three texts of C23 are parsed
C23_Examples ==
    /\ last.op = "parse_timer_default"
    /\ last.value \in { <<"0", "1", ":", "0", "2", ":", "0", "3">>,
                        <<"0", "0", ":", "6", "0", ":", "0", "0">>,
                        <<"2", "5", ":", "0", "0", ":", "0", "0">> }


(* The display of a remaining time *)

\* The multiples of unit nearest to ms, the upper one at the half:
\* unit * r - unit/2 <= ms < unit * r + unit/2
HalfUp(ms, unit) ==
    CHOOSE r \in {ms \div unit, ms \div unit + 1} :
        /\ unit * r - unit \div 2 <= ms
        /\ ms < unit * r + unit \div 2

\* A number below 100 in two digits
TwoDigits(n) == <<Digit(n \div 10), Digit(n % 10)>>

\* seconds.tenths of a number of tenths
SecondsTenths(text, tenths_total) ==
    \E seconds \in 0..60, tenths \in 0..9 :
        /\ 10 * seconds + tenths = tenths_total
        /\ text = Decimal(seconds) \o <<".">> \o <<Digit(tenths)>>

\* minute:second of a number of seconds, the seconds in two digits
MinuteSecond(text, total) ==
    \E minutes \in 0..(total \div 60), seconds \in 0..59 :
        /\ 60 * minutes + seconds = total
        /\ text = Decimal(minutes) \o <<":">> \o TwoDigits(seconds)

\* hour:minute:second of a number of seconds, the seconds in two digits
HourMinuteSecond(text, total) ==
    \E hours \in 0..(total \div 3600), minutes \in 0..59, seconds \in 0..59 :
        /\ 3600 * hours + 60 * minutes + seconds = total
        /\ text = Decimal(hours) \o <<":">> \o Decimal(minutes) \o <<":">> \o TwoDigits(seconds)

BasketballExamples ==
    /\ last.ms = 9950 => last.text = <<"1", "0", ".", "0">>
    /\ last.ms = 59949 => last.text = <<"5", "9", ".", "9">>
    /\ last.ms = 60000 => last.text = <<"1", ":", "0", "0">>

AtLeastTwoDigits(n) == IF n < 10 THEN TwoDigits(n) ELSE Decimal(n)

\* C25: Standard rounding shows floor(ms / 1000) seconds as HH:MM:SS with
\* every field zero-padded to two digits when the hours are above 0, and as
\* MM:SS with no hour field when they are 0; 3661000 gives 01:01:01 and
\* 61000 gives 01:01.
C25_Standard ==
    (last.op = "format_ms" /\ last.rounding = "Standard") =>
        /\ \E hours \in 0..(last.ms \div 3600000), minutes \in 0..59, seconds \in 0..59 :
              /\ 1000 * (3600 * hours + 60 * minutes + seconds) <= last.ms
              /\ last.ms - 1000 * (3600 * hours + 60 * minutes + seconds) < 1000
              /\ last.text =
                    IF hours > 0
                    THEN AtLeastTwoDigits(hours) \o <<":">> \o TwoDigits(minutes)
                            \o <<":">> \o TwoDigits(seconds)
                    ELSE TwoDigits(minutes) \o <<":">> \o TwoDigits(seconds)
        /\ last.ms = 3661000 => last.text = <<"0", "1", ":", "0", "1", ":", "0", "1">>
        /\ last.ms = 61000 => last.text = <<"0", "1", ":", "0", "1">>

\* A time of an hour or more and a time below an hour are formatted: here
\* the first
C25_Witness ==
    /\ last.op = "format_ms"
    /\ last.rounding = "Standard"
    /\ last.ms = 3661000
    /\ last.text = <<"0", "1", ":", "0", "1", ":", "0", "1">>


(* The compiled schema *)

\* The ids of a sequence of components or of table entries, in its order
IdsInOrder(components) == [i \in 1..Len(components) |-> components[i].id]

\* Two documents with the same tables, in any order
SameTables(a, b) ==
    /\ a.well_formed = b.well_formed
    /\ a.global = b.global
    /\ Len(a.table) = Len(b.table)
    /\ { a.table[i] : i \in 1..Len(a.table) } = { b.table[i] : i \in 1..Len(b.table) }

\* C26: a schema returned by a successful compile lists its components in
\* strictly increasing id order, whatever the order of the tables in the
\* document, and the snapshot lists them in that same order.
C26_SortedById ==
    (last.op = "load_config_from_str" /\ last.outcome.tag = "Ok") =>
        LET components == last.outcome.value.components IN
        /\ \A i \in 1..(Len(components) - 1) : id_less(components[i].id, components[i + 1].id)
        /\ IdsInOrder(snapshot(replace_config(new, last.outcome.value)).components) = IdsInOrder(components)
        /\ \A other \in ConfigDocuments :
              SameTables(other, last.content) =>
                 load_config_from_str(other, last.overflow_checks) = last.outcome

\* A document whose tables are not in id order has been compiled
C26_Witness ==
    /\ last.op = "load_config_from_str"
    /\ last.outcome.tag = "Ok"
    /\ Len(last.content.table) = 3
    /\ IdsInOrder(last.content.table) # IdsInOrder(last.outcome.value.components)
    /\ \E other \in ConfigDocuments : other # last.content /\ SameTables(other, last.content)


\* A position inside the canvas
Inside(x, y) == 0 <= x /\ x < 640 /\ 0 <= y /\ y < 480

\* The position of the second component of a document of PositionDocuments
NotePosition(content) == Unwrap(content.table[2].value.position)

\* A document with a label at (x, y) and nothing else that could fail
EdgeDocument(x, y) ==
    Document(<<Entry("home", LabelAt("home", 10, 10)), Entry("note", LabelAt("note", x, y))>>)

\* C27: the compile fails for a component with x < 0, x >= 640, y < 0 or
\* y >= 480 and does not fail for its position when 0 <= x < 640 and
\* 0 <= y < 480; (640,0), (-1,0) and (0,480) fail, (639,479) and (0,0)
\* succeed; every component of a compiled schema lies inside the canvas.
C27_Position ==
    last.op = "load_config_from_str" =>
        /\ last.content \in PositionDocuments =>
              /\ (last.outcome.tag = "Ok") <=>
                     Inside(NotePosition(last.content).x, NotePosition(last.content).y)
              /\ last.outcome.tag # "Ok" => last.outcome = Err("position is outside")
        /\ last.content \in {EdgeDocument(640, 0), EdgeDocument(-1, 0), EdgeDocument(0, 480)}
              => last.outcome.tag = "Err"
        /\ last.content \in {EdgeDocument(639, 479), EdgeDocument(0, 0)}
              => last.outcome.tag = "Ok"
        /\ last.outcome.tag = "Ok" =>
              \A i \in 1..Len(last.outcome.value.components) :
                  Inside(last.outcome.value.components[i].position.x,
                         last.outcome.value.components[i].position.y)

\* The compile has refused a component on the right edge
C27_Witness ==
    /\ last.op = "load_config_from_str"
    /\ last.content = EdgeDocument(640, 0)
    /\ last.outcome.tag = "Err"


(* Timers in every reachable state *)

\* C28: in every reachable state every timer has remaining_ms >= 0, after
\* any sequence of timer actions, ticks and reloads, for every accepted
\* timer default.
C28_RemainingNotNegative ==
    \A id \in DOMAIN runtime.timer_values : runtime.timer_values[id].remaining_ms >= 0

\* What holds: a timer is below 0 only under a schema whose default for it
\* is below 0
C28_NegativeOnlyByDefault ==
    \A id \in DOMAIN runtime.timer_values :
        runtime.timer_values[id].remaining_ms < 0 =>
            \E c \in CompsOf(Unwrap(runtime.config), "Timer") : c.id = id /\ c.default_ms < 0


\* C29: in every reachable state, for every timer, running is true exactly
\* when last_tick is present, and a running timer has remaining_ms > 0;
\* stated for a timer whose remaining_ms is held as limbs.
C29_RunningIsPositive ==
    \A id \in DOMAIN runtime.timer_values :
        /\ runtime.timer_values[id].running <=> IsSome(runtime.timer_values[id].last_tick)
        /\ runtime.timer_values[id].running => positive(runtime.timer_values[id].remaining_ms)

\* What holds: the same, of the timers whose remaining_ms stays within the
\* checker's integers
C29_RunningHasAnchor ==
    \A id \in DOMAIN runtime.timer_values :
        /\ runtime.timer_values[id].running <=> IsSome(runtime.timer_values[id].last_tick)
        /\ runtime.timer_values[id].running => runtime.timer_values[id].remaining_ms > 0

\* What holds at the top of the i64: running exactly when last_tick is present
C29_RunningExactlyAnchored ==
    \A id \in DOMAIN runtime.timer_values :
        runtime.timer_values[id].running <=> IsSome(runtime.timer_values[id].last_tick)


(* What an action leaves alone *)

\* The map that the actions of a tag write, and the kind of its components
MapOf(tag) ==
    CASE tag \in {"NumberIncrease", "NumberDecrease", "NumberReset"} -> "number_values"
      [] tag \in {"TimerStart", "TimerStop", "TimerReset", "TimerIncrease", "TimerDecrease"}
            -> "timer_values"
      [] tag \in {"ImageToggleForward", "ImageToggleBackward"} -> "image_toggle_indices"

KindOf(tag) ==
    CASE MapOf(tag) = "number_values" -> "Number"
      [] MapOf(tag) = "timer_values" -> "Timer"
      [] MapOf(tag) = "image_toggle_indices" -> "ImageToggle"

ValueMaps == {"number_values", "timer_values", "label_values", "image_toggle_indices"}

\* C30: apply_action with an action on id X changes at most the value of X
\* in the map of the action's kind (the schema, the values of the other ids
\* and the three other maps stay); when X is unknown or of another kind, or
\* no config is loaded, it returns false and changes nothing; tick_timers
\* changes only timers that are Running.
C30_Frame ==
    /\ \A action \in Actions :
          LET result == apply_action(runtime, action, now)
              written == MapOf(action.tag)
          IN  /\ result.rt.config = runtime.config
              /\ \A map \in ValueMaps \ {written} : result.rt[map] = runtime[map]
              /\ DOMAIN result.rt[written] = DOMAIN runtime[written]
              /\ \A id \in DOMAIN runtime[written] \ {action.id} :
                    result.rt[written][id] = runtime[written][id]
              /\ (\/ ~IsSome(runtime.config)
                  \/ ~IsSome(FindComponent(Unwrap(runtime.config), action.id,
                                           KindOf(action.tag))))
                    => ~result.changed /\ result.rt = runtime
    /\ LET ticked == tick_timers(runtime, now).rt IN
       /\ ticked.config = runtime.config
       /\ \A map \in ValueMaps \ {"timer_values"} : ticked[map] = runtime[map]
       /\ DOMAIN ticked.timer_values = DOMAIN runtime.timer_values
       /\ \A id \in DOMAIN runtime.timer_values :
             ~runtime.timer_values[id].running
                => ticked.timer_values[id] = runtime.timer_values[id]

\* Of two timers one is Running and due for a tick, the other is Stopped away
\* from its default, and an action has just changed one of them
C30_Witness ==
    /\ last.op \in {"TimerStart", "TimerStop", "TimerIncrease", "TimerDecrease"}
    /\ last.changed
    /\ \E a, b \in DOMAIN runtime.timer_values :
          /\ a # b
          /\ runtime.timer_values[a].running
          /\ ~runtime.timer_values[b].running
          /\ runtime.timer_values[b].remaining_ms \notin {0, 1000}
          /\ tick_timers(runtime, now).changed


(* The timers under the tick driver *)

\* a < b for two i64 of one sign, from limb i down
RECURSIVE below_from(_, _, _)
below_from(a, b, i) ==
    IF i = 0 THEN FALSE
    ELSE IF a[i] # b[i] THEN a[i] < b[i]
    ELSE below_from(a, b, i - 1)

\* a <= b for two i64
NotAbove(a, b) ==
    \/ a = b
    \/ IF is_negative(a) # is_negative(b) THEN is_negative(a) ELSE below_from(a, b, 4)

\* C31 (never increases on the way): a call of tick_timers leaves no
\* Running timer with more remaining_ms than it had; stated for a timer
\* whose remaining_ms is held as limbs.
C31_TickNeverIncreases ==
    [][Tick_i64 =>
          \A id \in DOMAIN runtime.timer_values :
              runtime.timer_values[id].running =>
                  NotAbove(runtime'.timer_values[id].remaining_ms,
                           runtime.timer_values[id].remaining_ms)]_vars

\* The timer of id is Stopped with remaining_ms = 0
Expired(id) ==
    /\ id \in DOMAIN runtime.timer_values
    /\ ~runtime.timer_values[id].running
    /\ runtime.timer_values[id].remaining_ms = 0

\* What holds of the timers whose remaining_ms stays within the checker's
\* integers, under a loop that keeps sleeping and ticking: a Running timer
\* is Stopped with remaining_ms = 0 at some later time unless the user acts
\* or loads first, and while the user does neither no step gives a Running
\* timer more remaining_ms than it had.
C31_DriverStops ==
    /\ \A id \in {"clock", "home"}, k \in 0..(MaxOperations + 1) :
          (id \in DOMAIN runtime.timer_values /\ runtime.timer_values[id].running /\ steps = k)
              ~> (Expired(id) \/ steps # k)
    /\ [][steps' = steps =>
             \A id \in DOMAIN runtime.timer_values :
                 runtime.timer_values[id].running =>
                     /\ id \in DOMAIN runtime'.timer_values
                     /\ runtime'.timer_values[id].remaining_ms
                           <= runtime.timer_values[id].remaining_ms]_vars

\* A timer the loop ran down: the tick stopped it at 0 after a sleep
C31_Witness ==
    /\ last.op = "tick_timers" /\ last.changed
    /\ \E id \in DOMAIN runtime.timer_values : Expired(id)


(* Counting down *)

\* The counter of id after apply_action(NumberDecrease { id })
Decreased(id) ==
    apply_action(runtime, Act("NumberDecrease", id), now).rt.number_values[id]

\* C32: apply_action(NumberDecrease) never increases a counter: for every
\* reachable stored value v, a negative configured default included, the
\* value after the action is <= v.
C32_DecreaseNeverIncreases ==
    \A id \in DOMAIN runtime.number_values : Decreased(id) <= runtime.number_values[id]

\* What holds: a counter that is not below 0 is not increased, one that is
\* below 0 is set to 0, and at i32::MIN, where `*value - 1` overflows, the
\* build without overflow checks sets it to i32::MAX
C32_DecreaseFloorsAtZero ==
    \A id \in DOMAIN runtime.number_values :
        LET v == runtime.number_values[id] IN
        /\ v >= 0 => Decreased(id) <= v /\ Decreased(id) >= 0
        /\ v < 0 /\ v # I32_MIN => Decreased(id) = 0
        /\ v = I32_MIN => Decreased(id) = I32_MAX


(* The action tables between two calls *)

\* No load, reload or set_hotkeys_paused call is in progress: the thread of
\* the commands and the watcher's are in no handler
NoCallInProgress == pc["command"] = Idle /\ pc["watcher"] = Idle

\* The tables hold the bindings of the schema in force, or nothing while the
\* hotkeys are paused
TablesAgree ==
    IF hotkeys_paused
    THEN action_by_shortcut = EmptyMap /\ action_by_gamepad = EmptyMap
    ELSE /\ action_by_shortcut = TableOf(runtime, FALSE)
         /\ action_by_gamepad = TableOf(runtime, TRUE)

\* C33: whenever no load, reload or set_hotkeys_paused call is in progress,
\* the keyboard and gamepad action tables contain exactly the bindings of
\* collect_hotkeys() for the current schema when hotkeys_paused is false,
\* and are empty when it is true, in every interleaving of concurrent
\* apply_config calls with each other and with set_hotkeys_paused.
C33_TablesFollowSchema == NoCallInProgress => TablesAgree

\* Every chord of the schema in force can be registered
Registrable ==
    \A i \in 1..Len(collect_hotkeys(runtime)) : ~Refused(collect_hotkeys(runtime)[i].shortcut)

\* The same of the schemas whose registration cannot fail: what is left of
\* C33 for the interleavings to break, and what holds when the calls do
\* not overlap
C33_RegistrableTablesFollowSchema == NoCallInProgress /\ Registrable => TablesAgree


(* What the rollback of apply_config overwrites *)

\* The RuntimeState is the one a replace_config with a schema that cannot be
\* registered leaves: that schema, every value at its default
LeftByFailedReplace(rt) ==
    /\ IsSome(rt.config)
    /\ rt = replace_config(new, Unwrap(rt.config))
    /\ \E i \in 1..Len(collect_hotkeys(rt)) : Refused(collect_hotkeys(rt)[i].shortcut)

\* C34: the rollback of a failing apply_config discards no change made by
\* another thread between its replace_config and its restore and overwrites
\* no schema installed by a concurrent apply_config: when it is about to
\* store the previous RuntimeState, under the lock, the RuntimeState it
\* overwrites is the one its own replace_config left.
C34_RollbackDiscardsOwnOnly ==
    \A t \in {"command", "watcher"} :
        pc[t] = "apply_config.restore" => LeftByFailedReplace(runtime)

\* The same with the other thread's load over and done: the schema that load
\* installed, and for which it returned Ok, is the one overwritten
C34_CompletedLoadKept ==
    \A t \in {"command", "watcher"} :
        pc[t] = "apply_config.restore" /\ (\A u \in Threads \ {t} : pc[u] = Idle)
            => LeftByFailedReplace(runtime)

\* What holds: the same when the calls do not overlap
C34_SerialRollback ==
    in_flight_limit = 1 =>
        \A t \in {"command", "watcher"} :
            pc[t] = "apply_config.restore" => LeftByFailedReplace(runtime)


(* What the renderer shows *)

\* No thread is inside a handler
NoOperationInProgress == \A t \in Threads : pc[t] = Idle

\* C35: whenever no operation is in progress, the snapshot most recently
\* emitted to the renderer equals snapshot() of the current RuntimeState
\* (snapshots are emitted in the order in which they were taken, and every
\* change of the displayed state is followed by an emission); before the
\* first emission the renderer shows what an empty RuntimeState gives.
C35_RendererIsCurrent ==
    NoOperationInProgress =>
        snapshot(runtime) = (IF IsSome(emitted) THEN Unwrap(emitted) ELSE snapshot(new))

\* What holds: the same when the handlers do not overlap
C35_RendererIsCurrentSerially ==
    in_flight_limit = 1 /\ NoOperationInProgress =>
        snapshot(runtime) = (IF IsSome(emitted) THEN Unwrap(emitted) ELSE snapshot(new))


(* Triggers while the hotkeys are paused *)

\* The thread of the commands is inside a set_hotkeys_paused call: at its
\* own lock, or in the unregister_hotkeys / register_hotkeys it calls, which
\* a load reaches with load.after_apply on its stack
InSetHotkeysPaused ==
    \/ pc["command"] \in {"set_hotkeys_paused.lock", "set_hotkeys_paused.body"}
    \/ /\ pc["command"] \in {e[1] : e \in Locks} \cup {e[3] : e \in Locks}
       /\ pc["command"] \notin {"update_label_text.lock", "update_label_text.body",
                                "emit_snapshot.lock", "emit_snapshot.body"}
       /\ \A i \in 1..Len(frame["command"].ret) : frame["command"].ret[i] # "load.after_apply"
       /\ ~IsSome(frame["command"].previous_runtime) /\ ~IsSome(frame["command"].config)

\* set_hotkeys_paused(true) has returned and set_hotkeys_paused(false) has
\* not been called since
PausedAndReturned ==
    hotkeys_paused /\ pc["command"] # Returning /\ ~InSetHotkeysPaused

\* C36: once a set_hotkeys_paused(true) call has returned, no keyboard
\* shortcut and no gamepad button press mutates RuntimeState until
\* set_hotkeys_paused(false) is called, in every interleaving with the
\* handle_shortcut and handle_gamepad_button calls already in progress.
C36_PausedMeansNoTrigger ==
    [][PausedAndReturned =>
          \A t \in {"keyboard", "gamepad"} :
              pc[t] = "handle.apply" /\ pc'[t] # pc[t] => runtime' = runtime]_vars

\* What holds: the same when the calls do not overlap
C36_PausedMeansNoTriggerSerially ==
    [][in_flight_limit = 1 /\ PausedAndReturned =>
          \A t \in {"keyboard", "gamepad"} :
              pc[t] = "handle.apply" /\ pc'[t] # pc[t] => runtime' = runtime]_vars

\* What holds in every interleaving: a trigger handler that finds the
\* hotkeys paused when it reads the flag goes no further
C36_PausedHandlerReturns ==
    [][\A t \in {"keyboard", "gamepad"} :
          pc[t] = "handle.read_paused" /\ pc'[t] # pc[t] /\ hotkeys_paused
              => pc'[t] = Idle /\ runtime' = runtime]_vars


(* Dispatch after register_hotkeys *)

\* handle_shortcut's or handle_gamepad_button's lookup for the binding
\* finds the binding's action
Dispatchable(binding) ==
    IF binding.shortcut # <<>> /\ binding.shortcut[1] = "Gamepad:"
    THEN /\ Tail(binding.shortcut) \in DOMAIN action_by_gamepad
         /\ action_by_gamepad[Tail(binding.shortcut)] = binding.action
    ELSE /\ binding.shortcut \in DOMAIN action_by_shortcut
         /\ action_by_shortcut[binding.shortcut] = binding.action

Registered == last.op = "register_hotkeys" /\ last.result = "Ok"

\* C37: after a successful register_hotkeys, every binding returned by
\* collect_hotkeys() is dispatchable: the lookup of its shortcut in the
\* keyboard table, or of its button in the gamepad table, yields that
\* binding's action, also when two actions of the schema are bound to the
\* same shortcut.
C37_EveryBindingDispatchable ==
    Registered =>
        \A i \in 1..Len(collect_hotkeys(runtime)) : Dispatchable(collect_hotkeys(runtime)[i])

\* The same of the schemas whose keyboard shortcuts are all apart, where the
\* result of register_hotkeys does not hang on the library: two actions on
\* one gamepad button
C37_SharedButtonDispatchable ==
    Registered /\ ~RepeatsKeyboardShortcut(collect_hotkeys(runtime)) =>
        \A i \in 1..Len(collect_hotkeys(runtime)) : Dispatchable(collect_hotkeys(runtime)[i])

\* What holds: a binding is dispatchable when no later binding has its
\* shortcut, and every shortcut of the schema is in its table
C37_LastBindingDispatchable ==
    Registered =>
        LET bindings == collect_hotkeys(runtime) IN
        \A i \in 1..Len(bindings) :
            /\ (\A j \in 1..Len(bindings) : bindings[j].shortcut = bindings[i].shortcut => j <= i)
                  => Dispatchable(bindings[i])
            /\ \E j \in 1..Len(bindings) :
                  bindings[j].shortcut = bindings[i].shortcut /\ Dispatchable(bindings[j])

============================================================================
